---- MODULE Spec2Model ----
(***************************************************************************)
(* Finance service (FastAPI + SQLAlchemy): the ledger store, the invoice   *)
(* and budget composers, the expense workflow and the report aggregator.   *)
(*                                                                         *)
(* Conventions.                                                            *)
(*  - A table is a set of rows (records).  Rows of a transaction that has  *)
(*    flushed but not committed live in the worker's session (local[p])    *)
(*    and are invisible to every other request.                            *)
(*  - Optional[T] is a sequence of length <= 1: <<>> is None, <<v>> is v.  *)
(*  - A patch (pydantic .dict(exclude_unset=True)) is a record holding     *)
(*    exactly the supplied fields.                                         *)
(*  - Float amounts are small naturals; datetimes are naturals.            *)
(*  - uuid4() is a fresh counter value; datetime.utcnow() at an INSERT is  *)
(*    a clock that ticks at every header INSERT, so created_at is strictly *)
(*    increasing in INSERT order.  updated_at is written and never read by *)
(*    any operation; it is not part of the rows.                           *)
(***************************************************************************)
EXTENDS Integers, Sequences, FiniteSets, TLC

VARIABLES
  invoices,       \* table invoices (committed rows)
  invoice_items,  \* table invoice_items (committed rows)
  budgets,        \* table budgets (committed rows)
  budget_items,   \* table budget_items (committed rows)
  expenses,       \* table expenses (committed rows)
  transactions,   \* table transactions (committed rows)
  accounts,       \* table accounts (committed rows)
  pc,             \* per worker: position inside a composing handler
  local,          \* per worker: the handler's locals and its open session
  now,            \* the clock: value of the last created_at handed out
  uuid,           \* number of header ids handed out by uuid4()
  response,       \* the response most recently returned by a handler
  issued,         \* history: greatest invoice-number suffix ever committed
  composed,       \* history: header id -> number of item rows requested
  decided         \* history: expense id -> the decisions ever taken on it

vars == <<invoices, invoice_items, budgets, budget_items, expenses,
          transactions, accounts,
          pc, local, now, uuid, response, issued, composed, decided>>

\* ------------------------------------------------------------------ bounds

\* Invoices created in one behaviour of Spec (the invoice life cycle).
MaxInvoices == 2

\* Header rows (invoices and budgets) created in one behaviour of SpecRace.
MaxCreates == 4

\* Invoices created in one behaviour of SpecSeq and of SpecNumbering.
MaxNumbered == 5

\* Ledger rows (invoices and expenses) created in one behaviour of SpecReport.
MaxLedger == 3

\* Ledger rows (invoices, expenses, transactions, accounts) created in one
\* behaviour of SpecBooks.
MaxBooks == 2

\* Ledger rows (invoices, expenses, budgets) created in one behaviour of
\* SpecProject.
MaxProject == 3

\* Expenses created in one behaviour of SpecExpense or SpecApproval.
MaxExpenses == 2

\* The latest time the clock of SpecApproval reaches.
MaxClock == 1

\* Records of any kind created in one behaviour of SpecStore; its requests
\* try one id more than that.
MaxStore == 1

\* Records of any kind created in one behaviour of SpecUpdates.
MaxRecords == 2

\* Accounts and transactions created in one behaviour of SpecLedger,
\* SpecPosting or SpecPostingRace.
MaxPostings == 4


\* The two request workers that may run handlers concurrently.
Procs == {"w1", "w2"}

\* ------------------------------------------------------------- Python bits

None == <<>>
Some(v) == <<v>>
IsNone(x) == x = <<>>
Val(x) == x[1]

\* x or default
OrElse(x, d) == IF IsNone(x) THEN d ELSE Val(x)

RECURSIVE SumSeq(_)
SumSeq(s) == IF s = <<>> THEN 0 ELSE Head(s) + SumSeq(Tail(s))

RECURSIVE SumOver(_, _)
\* SQL sum(col) over a set of rows: 0 here stands for "NULL or 0.0"
SumOver(rows, col) ==
  IF rows = {} THEN 0
  ELSE LET r == CHOOSE x \in rows : TRUE
       IN r[col] + SumOver(rows \ {r}, col)

\* --------------------------------------------------- invoice number strings

DigitChars == <<"0", "1", "2", "3", "4", "5", "6", "7", "8", "9">>

RECURSIVE DigitsOf(_)
\* str(n) for n >= 0, as a sequence of characters
DigitsOf(n) ==
  IF n < 10 THEN <<DigitChars[n + 1]>>
  ELSE Append(DigitsOf(n \div 10), DigitChars[(n % 10) + 1])

RECURSIVE ZeroPad(_, _)
ZeroPad(ds, width) == IF Len(ds) >= width THEN ds ELSE ZeroPad(<<"0">> \o ds, width)

\* f"INV-{next_number:04d}"
\* (the argument is bound to its value, so that it is computed once)
FormatInvoiceNumber(n) ==
  CHOOSE text \in {<<"I", "N", "V", "-">> \o ZeroPad(DigitsOf(v), 4) : v \in {n}} : TRUE

RECURSIVE SplitDash(_)
\* s.split('-')
SplitDash(s) ==
  IF \A i \in 1..Len(s) : s[i] # "-" THEN <<s>>
  ELSE LET k == CHOOSE i \in 1..Len(s) : s[i] = "-" /\ \A j \in 1..(i - 1) : s[j] # "-"
       IN <<SubSeq(s, 1, k - 1)>> \o SplitDash(SubSeq(s, k + 1, Len(s)))

DigitValue(c) == (CHOOSE d \in 1..10 : DigitChars[d] = c) - 1

RECURSIVE DigitsValue(_)
DigitsValue(ds) ==
  IF ds = <<>> THEN 0
  ELSE DigitsValue(SubSeq(ds, 1, Len(ds) - 1)) * 10 + DigitValue(ds[Len(ds)])

\* int(text): None stands for ValueError
ParseInt(ds) ==
  IF ds = <<>> \/ \E i \in 1..Len(ds) : \A d \in 1..10 : DigitChars[d] # ds[i]
  THEN None
  ELSE Some(DigitsValue(ds))

\* int(invoice_number.split('-')[1]); None stands for IndexError / ValueError
NumberSuffix(invoice_number) ==
  CHOOSE n \in {IF Len(parts) < 2 THEN None ELSE ParseInt(parts[2]) :
                  parts \in {SplitDash(text) : text \in {invoice_number}}} : TRUE

\* -------------------------------------------------------------- the store

\* db.query(Invoice).order_by(desc(Invoice.created_at)).first()
LatestInvoice(rows) ==
  IF rows = {} THEN None
  ELSE Some(CHOOSE r \in rows : \A o \in rows : o.created_at <= r.created_at)

\* create_invoice lines 13-19: the suffix of the latest invoice plus one, 1 when
\* there is no invoice or the suffix cannot be parsed
next_number_of(latest_invoice) ==
  IF IsNone(latest_invoice) THEN 1
  ELSE LET n == NumberSuffix(Val(latest_invoice).invoice_number)
       IN IF IsNone(n) THEN 1 ELSE Val(n) + 1

get_invoice_by_id(invoice_id) ==
  IF \E r \in invoices : r.id = invoice_id
  THEN Some(CHOOSE r \in invoices : r.id = invoice_id)
  ELSE None

get_budget_by_id(budget_id) ==
  IF \E r \in budgets : r.id = budget_id
  THEN Some(CHOOSE r \in budgets : r.id = budget_id)
  ELSE None

Idle == [at |-> "idle"]

\* ----------------------------------------------------------- request inputs

\* schemas.py InvoiceItemBase.calculate_amount: a missing amount is filled in
InvoiceItemBase(item) ==
  [item EXCEPT !.amount = IF IsNone(item.amount)
                          THEN Some(item.quantity * item.unit_price)
                          ELSE item.amount]

Item(q, p, a) == InvoiceItemBase([description |-> "A", quantity |-> q, unit_price |-> p, amount |-> a])

InvoiceCreate(project, issue, items, tax) ==
  [client_id |-> "c1", project_id |-> project, issue_date |-> issue, due_date |-> 3,
   description |-> None, notes |-> None, items |-> items, tax_amount |-> tax]

\* Invoice requests of the concurrent specification: one item, two items (one
\* with a caller-supplied amount that differs from quantity * unit_price), none.
InvoiceRequests ==
  { InvoiceCreate(None, Some(1), <<Item(2, 3, None)>>, Some(1)),
    InvoiceCreate(Some("p1"), None, <<Item(1, 2, Some(7)), Item(2, 1, None)>>, None),
    InvoiceCreate(None, Some(2), <<>>, Some(0)) }

\* PUT /invoices/{id} bodies: only the supplied keys are present; the last
\* one carries keys InvoiceUpdate does not declare
InvoicePatches ==
  { [tax_amount |-> Some(2)],
    [status |-> Some("overdue"), tax_amount |-> None],
    [notes |-> Some("n"), status |-> None],
    [amount |-> Some(9), total_amount |-> Some(9), invoice_number |-> Some(<<"X">>)] }

\* columns that may hold NULL: they are stored as Optional values
NullableCols == {"project_id", "description", "notes", "department_id",
                 "approved_by", "approved_at", "receipt_url", "account_number"}

StoredValue(key, value) == IF key \in NullableCols THEN value ELSE Val(value)

ApplyPatch_sets_null(row, update_data, skip) ==
  [k \in DOMAIN row |->
     IF k \in DOMAIN update_data /\ k \notin skip
     THEN IF IsNone(update_data[k]) THEN None ELSE StoredValue(k, update_data[k])
     ELSE row[k]]

\* for key, value in update_data.items(): if value is not None [and key not
\* in skip]: setattr(row, key, value)
ApplyPatch(row, update_data, skip) ==
  [k \in DOMAIN row |->
     IF k \in DOMAIN update_data /\ k \notin skip /\ ~IsNone(update_data[k])
     THEN StoredValue(k, update_data[k])
     ELSE row[k]]

ParseBody_keep_extra(fields, payload) == payload

\* A request body parsed into a pydantic model and read back with
\* .dict(exclude_unset=True): the declared fields the caller sent; keys the
\* model does not declare are ignored.
ParseBody(fields, payload) ==
  [k \in (DOMAIN payload) \cap fields |-> payload[k]]

\* class InvoiceUpdate: the fields a PUT /invoices/{id} body may carry.
InvoiceUpdate ==
  {"client_id", "project_id", "issue_date", "due_date", "status",
   "description", "notes", "tax_amount"}

\* ------------------------------------------------------- invoice composer

Subtotal(items) ==
  SumSeq([i \in 1..Len(items) |-> items[i].quantity * items[i].unit_price])

InvoiceItemRows_caller_amount(invoice_id, items) ==
  { [id |-> <<invoice_id, k>>, invoice_id |-> invoice_id,
     description |-> items[k].description, quantity |-> items[k].quantity,
     unit_price |-> items[k].unit_price,
     amount |-> Val(items[k].amount)] : k \in 1..Len(items) }

\* create_invoice lines 48-57: the item rows of a header
InvoiceItemRows(invoice_id, items) ==
  { [id |-> <<invoice_id, k>>, invoice_id |-> invoice_id,
     description |-> items[k].description, quantity |-> items[k].quantity,
     unit_price |-> items[k].unit_price,
     amount |-> items[k].quantity * items[k].unit_price] : k \in 1..Len(items) }

create_invoice_query_serialized(p, invoice_data) ==
  /\ \A q \in Procs : pc[q] = "idle"
  /\ pc' = [pc EXCEPT ![p] = "inv_built"]
  /\ local' = [local EXCEPT ![p] =
       [invoice_data |-> invoice_data,
        latest_invoice |-> LatestInvoice(invoices),
        present |-> {r.invoice_number : r \in invoices},
        db_invoice |->
          [id |-> uuid + 1,
           invoice_number |-> FormatInvoiceNumber(next_number_of(LatestInvoice(invoices))),
           client_id |-> invoice_data.client_id,
           project_id |-> invoice_data.project_id,
           issue_date |-> OrElse(invoice_data.issue_date, now),
           due_date |-> invoice_data.due_date,
           amount |-> Subtotal(invoice_data.items),
           tax_amount |-> OrElse(invoice_data.tax_amount, 0),
           total_amount |-> Subtotal(invoice_data.items) + OrElse(invoice_data.tax_amount, 0),
           status |-> "pending",
           description |-> invoice_data.description,
           notes |-> invoice_data.notes,
           created_at |-> 0]]]
  /\ composed' = composed @@ ((uuid + 1) :> Len(invoice_data.items))
  /\ uuid' = uuid + 1
  /\ UNCHANGED <<transactions, accounts,
                 invoices, invoice_items, budgets, budget_items, expenses,
                 now, response, issued, decided>>

\* create_invoice lines 12-42: read the latest invoice, compute the number and
\* the totals, build the header object (uuid4 is drawn here)
create_invoice_query(p, invoice_data) ==
  /\ pc[p] = "idle"
  /\ LET latest_invoice == LatestInvoice(invoices)
         next_number == next_number_of(latest_invoice)
         subtotal == Subtotal(invoice_data.items)
         tax_amount == OrElse(invoice_data.tax_amount, 0)
         db_invoice ==
           [id |-> uuid + 1,
            invoice_number |-> FormatInvoiceNumber(next_number),
            client_id |-> invoice_data.client_id,
            project_id |-> invoice_data.project_id,
            issue_date |-> OrElse(invoice_data.issue_date, now),
            due_date |-> invoice_data.due_date,
            amount |-> subtotal,
            tax_amount |-> tax_amount,
            total_amount |-> subtotal + tax_amount,
            status |-> "pending",
            description |-> invoice_data.description,
            notes |-> invoice_data.notes,
            created_at |-> 0]
     IN /\ local' = [local EXCEPT ![p] =
                       [invoice_data |-> invoice_data,
                        latest_invoice |-> latest_invoice,
                        present |-> {r.invoice_number : r \in invoices},
                        db_invoice |-> db_invoice]]
        /\ composed' = composed @@ ((uuid + 1) :> Len(invoice_data.items))
  /\ pc' = [pc EXCEPT ![p] = "inv_built"]
  /\ uuid' = uuid + 1
  /\ UNCHANGED <<transactions, accounts,
                 invoices, invoice_items, budgets, budget_items, expenses,
                 now, response, issued, decided>>

\* models.py line 26, unique=True: the INSERT is refused when a committed row
\* holds the number
UniqueViolation(number) == \E r \in invoices : r.invoice_number = number

\* ... and waits while another open transaction holds the number uncommitted
UniqueWait(p, number) ==
  \E q \in Procs \ {p} :
     pc[q] = "inv_flushed" /\ local[q].db_invoice.invoice_number = number

create_invoice_flush_nounique(p) ==
  /\ pc[p] = "inv_built"
  /\ now' = now + 1
  /\ local' = [local EXCEPT ![p].db_invoice.created_at = now + 1]
  /\ pc' = [pc EXCEPT ![p] = "inv_flushed"]
  /\ UNCHANGED <<transactions, accounts,
                 invoices, invoice_items, budgets, budget_items, expenses,
                 uuid, response, issued, composed, decided>>

create_invoice_flush_autocommit(p) ==
  /\ pc[p] = "inv_built"
  /\ ~UniqueWait(p, local[p].db_invoice.invoice_number)
  /\ IF UniqueViolation(local[p].db_invoice.invoice_number)
     THEN /\ pc' = [pc EXCEPT ![p] = "idle"]
          /\ local' = [local EXCEPT ![p] = Idle]
          /\ response' = [op |-> "create_invoice", code |-> 500]
          /\ UNCHANGED <<now, invoices>>
     ELSE /\ now' = now + 1
          /\ local' = [local EXCEPT ![p].db_invoice.created_at = now + 1]
          /\ invoices' = invoices \cup {[local[p].db_invoice EXCEPT !.created_at = now + 1]}
          /\ pc' = [pc EXCEPT ![p] = "inv_flushed"]
          /\ UNCHANGED response
  /\ UNCHANGED <<transactions, accounts, invoice_items, budgets, budget_items, expenses,
                 uuid, issued, composed, decided>>

\* create_invoice lines 44-45: db.add(db_invoice); db.flush().  The header is
\* INSERTed inside the open transaction (created_at defaults to utcnow here);
\* an IntegrityError propagates out of the handler and the session rolls back.
create_invoice_flush(p) ==
  /\ pc[p] = "inv_built"
  /\ ~UniqueWait(p, local[p].db_invoice.invoice_number)
  /\ IF UniqueViolation(local[p].db_invoice.invoice_number)
     THEN /\ pc' = [pc EXCEPT ![p] = "idle"]
          /\ local' = [local EXCEPT ![p] = Idle]
          /\ response' = [op |-> "create_invoice", code |-> 500]
          /\ UNCHANGED now
     ELSE /\ now' = now + 1
          /\ local' = [local EXCEPT ![p].db_invoice.created_at = now + 1]
          /\ pc' = [pc EXCEPT ![p] = "inv_flushed"]
          /\ UNCHANGED response
  /\ UNCHANGED <<transactions, accounts,
                 invoices, invoice_items, budgets, budget_items, expenses,
                 uuid, issued, composed, decided>>

\* create_invoice lines 48-61: the item rows are added and the transaction
\* commits: header and items become visible together
create_invoice_commit(p) ==
  /\ pc[p] = "inv_flushed"
  /\ LET db_invoice == local[p].db_invoice
     IN /\ invoices' = invoices \cup {db_invoice}
        /\ invoice_items' = invoice_items \cup
                            InvoiceItemRows(db_invoice.id, local[p].invoice_data.items)
        /\ response' = [op |-> "create_invoice", code |-> 201]
        /\ issued' = LET n == NumberSuffix(db_invoice.invoice_number)
                     IN IF ~IsNone(n) /\ Val(n) > issued THEN Val(n) ELSE issued
  /\ pc' = [pc EXCEPT ![p] = "idle"]
  /\ local' = [local EXCEPT ![p] = Idle]
  /\ UNCHANGED <<transactions, accounts,
                 budgets, budget_items, expenses, now, uuid, composed, decided>>

UpdatedInvoice_stale_total(db_invoice, update_data) ==
  LET set == ApplyPatch(db_invoice, update_data, {"tax_amount"})
  IN IF "tax_amount" \in DOMAIN update_data /\ ~IsNone(update_data.tax_amount)
     THEN [set EXCEPT !.tax_amount = Val(update_data.tax_amount)]
     ELSE set

UpdatedInvoice_tax_in_amount(db_invoice, update_data) ==
  LET set == ApplyPatch(db_invoice, update_data, {"tax_amount"})
  IN IF "tax_amount" \in DOMAIN update_data /\ ~IsNone(update_data.tax_amount)
     THEN [set EXCEPT !.tax_amount = Val(update_data.tax_amount),
                      !.amount = set.amount + Val(update_data.tax_amount),
                      !.total_amount = set.amount + Val(update_data.tax_amount)]
     ELSE set

\* update_invoice lines 102-110: the supplied fields other than tax_amount are
\* set; a supplied tax_amount is set and the total recomputed
UpdatedInvoice(db_invoice, update_data) ==
  LET set == ApplyPatch(db_invoice, update_data, {"tax_amount"})
  IN IF "tax_amount" \in DOMAIN update_data /\ ~IsNone(update_data.tax_amount)
     THEN [set EXCEPT !.tax_amount = Val(update_data.tax_amount),
                      !.total_amount = set.amount + Val(update_data.tax_amount)]
     ELSE set

\* update_invoice lines 96-115
update_invoice(invoice_id, invoice_data) ==
  LET found == get_invoice_by_id(invoice_id)
      update_data == ParseBody(InvoiceUpdate, invoice_data)
  IN /\ IF IsNone(found)
        THEN /\ response' = [op |-> "update_invoice", code |-> 404]
             /\ UNCHANGED invoices
        ELSE /\ invoices' = (invoices \ {Val(found)}) \cup
                            {UpdatedInvoice(Val(found), update_data)}
             /\ response' = [op |-> "update_invoice", code |-> 200]
     /\ UNCHANGED <<transactions, accounts,
                    invoice_items, budgets, budget_items, expenses,
                    pc, local, now, uuid, issued, composed, decided>>

delete_invoice_nocascade(invoice_id) ==
  LET found == get_invoice_by_id(invoice_id)
  IN /\ IF IsNone(found)
        THEN /\ response' = [op |-> "delete_invoice", code |-> 404]
             /\ UNCHANGED <<invoices, invoice_items>>
        ELSE /\ invoices' = invoices \ {Val(found)}
             /\ UNCHANGED invoice_items
             /\ response' = [op |-> "delete_invoice", code |-> 204]
     /\ UNCHANGED <<transactions, accounts, budgets, budget_items, expenses,
                    pc, local, now, uuid, issued, composed, decided>>

\* delete_invoice lines 117-124; models.py line 41: cascade="all, delete-orphan"
delete_invoice(invoice_id) ==
  LET found == get_invoice_by_id(invoice_id)
  IN /\ IF IsNone(found)
        THEN /\ response' = [op |-> "delete_invoice", code |-> 404]
             /\ UNCHANGED <<invoices, invoice_items>>
        ELSE /\ invoices' = invoices \ {Val(found)}
             /\ invoice_items' = {it \in invoice_items : it.invoice_id # invoice_id}
             /\ response' = [op |-> "delete_invoice", code |-> 204]
     /\ UNCHANGED <<transactions, accounts, budgets, budget_items, expenses,
                    pc, local, now, uuid, issued, composed, decided>>

\* mark_invoice_paid lines 126-135
mark_invoice_paid(invoice_id) ==
  LET found == get_invoice_by_id(invoice_id)
  IN /\ IF IsNone(found)
        THEN /\ response' = [op |-> "mark_invoice_paid", code |-> 404]
             /\ UNCHANGED invoices
        ELSE /\ invoices' = (invoices \ {Val(found)}) \cup {[Val(found) EXCEPT !.status = "paid"]}
             /\ response' = [op |-> "mark_invoice_paid", code |-> 200]
     /\ UNCHANGED <<transactions, accounts,
                    invoice_items, budgets, budget_items, expenses,
                    pc, local, now, uuid, issued, composed, decided>>

\* An exception inside a composing handler (a lost connection, a failed
\* statement): nothing was committed, the session closes and rolls back.
request_fails(p) ==
  /\ pc[p] # "idle"
  /\ pc' = [pc EXCEPT ![p] = "idle"]
  /\ local' = [local EXCEPT ![p] = Idle]
  /\ response' = [op |-> "error", code |-> 500, at |-> pc[p]]
  /\ UNCHANGED <<transactions, accounts,
                 invoices, invoice_items, budgets, budget_items, expenses,
                 now, uuid, issued, composed, decided>>

\* -------------------------------------------------------- budget composer

BudgetItem(category, amount) == [category |-> category, description |-> None, amount |-> amount]

BudgetCreate(project, amount, start_date, end_date, items) ==
  [name |-> "b", description |-> None, amount |-> amount, start_date |-> start_date,
   end_date |-> end_date, project_id |-> project, department_id |-> None,
   created_by |-> "u1", items |-> items]

BudgetRequests ==
  { BudgetCreate(Some("p1"), 5, 1, 2, <<BudgetItem("travel", 2), BudgetItem("food", 3)>>),
    BudgetCreate(None, 4, 2, 3, <<>>) }

\* create_budget lines 28-36: the item rows of a header
BudgetItemRows(budget_id, items) ==
  { [id |-> <<budget_id, k>>, budget_id |-> budget_id,
     category |-> items[k].category, description |-> items[k].description,
     amount |-> items[k].amount] : k \in 1..Len(items) }

BudgetRow(budget_data, id, created_at) ==
  [id |-> id,
   name |-> budget_data.name,
   description |-> budget_data.description,
   amount |-> budget_data.amount,
   start_date |-> budget_data.start_date,
   end_date |-> budget_data.end_date,
   project_id |-> budget_data.project_id,
   department_id |-> budget_data.department_id,
   created_by |-> budget_data.created_by,
   created_at |-> created_at]

\* create_budget lines 12-25: build the header, db.add, db.flush(): the header
\* is INSERTed inside the open transaction
create_budget_flush(p, budget_data) ==
  /\ pc[p] = "idle"
  /\ local' = [local EXCEPT ![p] =
                 [budget_data |-> budget_data,
                  db_budget |-> BudgetRow(budget_data, uuid + 1, now + 1)]]
  /\ composed' = composed @@ ((uuid + 1) :> Len(budget_data.items))
  /\ pc' = [pc EXCEPT ![p] = "bud_flushed"]
  /\ uuid' = uuid + 1
  /\ now' = now + 1
  /\ UNCHANGED <<transactions, accounts,
                 invoices, invoice_items, budgets, budget_items, expenses,
                 response, issued, decided>>

\* create_budget lines 27-40: the item rows are added and the transaction commits
create_budget_commit(p) ==
  /\ pc[p] = "bud_flushed"
  /\ budgets' = budgets \cup {local[p].db_budget}
  /\ budget_items' = budget_items \cup
                     BudgetItemRows(local[p].db_budget.id, local[p].budget_data.items)
  /\ response' = [op |-> "create_budget", code |-> 201]
  /\ pc' = [pc EXCEPT ![p] = "idle"]
  /\ local' = [local EXCEPT ![p] = Idle]
  /\ UNCHANGED <<transactions, accounts,
                 invoices, invoice_items, expenses, now, uuid, issued, composed, decided>>

\* delete_budget lines 82-89; models.py line 94: cascade="all, delete-orphan"
delete_budget(budget_id) ==
  LET found == get_budget_by_id(budget_id)
  IN /\ IF IsNone(found)
        THEN /\ response' = [op |-> "delete_budget", code |-> 404]
             /\ UNCHANGED <<budgets, budget_items>>
        ELSE /\ budgets' = budgets \ {Val(found)}
             /\ budget_items' = {it \in budget_items : it.budget_id # budget_id}
             /\ response' = [op |-> "delete_budget", code |-> 204]
     /\ UNCHANGED <<transactions, accounts, invoices, invoice_items, expenses,
                    pc, local, now, uuid, issued, composed, decided>>

\* ------------------------------------------------------------ expenses

ExpenseCreate(category, amount, expense_date, project) ==
  [employee_id |-> "e1", category |-> category, amount |-> amount, currency |-> "USD",
   description |-> None, receipt_url |-> None, expense_date |-> expense_date,
   project_id |-> project, department_id |-> None]

get_expense_by_id(expense_id) ==
  IF \E r \in expenses : r.id = expense_id
  THEN Some(CHOOSE r \in expenses : r.id = expense_id)
  ELSE None

\* create_expense lines 11-29
create_expense(expense_data) ==
  /\ expenses' = expenses \cup
       {[id |-> uuid + 1,
         employee_id |-> expense_data.employee_id,
         category |-> expense_data.category,
         amount |-> expense_data.amount,
         currency |-> expense_data.currency,
         description |-> expense_data.description,
         receipt_url |-> expense_data.receipt_url,
         expense_date |-> expense_data.expense_date,
         project_id |-> expense_data.project_id,
         department_id |-> expense_data.department_id,
         status |-> "pending",
         approved_by |-> None,
         approved_at |-> None,
         created_at |-> now]}
  /\ uuid' = uuid + 1
  /\ response' = [op |-> "create_expense", code |-> 201]
  /\ UNCHANGED <<transactions, accounts, invoices, invoice_items, budgets, budget_items,
                 pc, local, now, issued, composed, decided>>

\* The decisions taken so far on an expense (history).
DecisionsOf(expense_id) ==
  IF expense_id \in DOMAIN decided THEN decided[expense_id] ELSE {}

Decided(expense_id, status) ==
  [k \in DOMAIN decided \cup {expense_id} |->
     IF k = expense_id THEN DecisionsOf(expense_id) \cup {status} ELSE decided[k]]

DecideExpense_pending_only(op, expense_id, approver_id, status) ==
  LET found == get_expense_by_id(expense_id)
  IN /\ IF IsNone(found)
        THEN /\ response' = [op |-> op, code |-> 404]
             /\ UNCHANGED <<expenses, decided>>
        ELSE IF Val(found).status # "pending"
        THEN /\ response' = [op |-> op, code |-> 409]
             /\ UNCHANGED <<expenses, decided>>
        ELSE /\ expenses' = (expenses \ {Val(found)}) \cup
                  {[Val(found) EXCEPT !.status = status,
                                      !.approved_by = Some(approver_id),
                                      !.approved_at = Some(now)]}
             /\ decided' = Decided(expense_id, status)
             /\ response' = [op |-> op, code |-> 200]
     /\ UNCHANGED <<transactions, accounts,
                    invoices, invoice_items, budgets, budget_items,
                    pc, local, now, uuid, issued, composed>>

\* approve_expense lines 89-100 and reject_expense lines 102-113
DecideExpense(op, expense_id, approver_id, status) ==
  LET found == get_expense_by_id(expense_id)
  IN /\ IF IsNone(found)
        THEN /\ response' = [op |-> op, code |-> 404]
             /\ UNCHANGED <<expenses, decided>>
        ELSE /\ expenses' = (expenses \ {Val(found)}) \cup
                  {[Val(found) EXCEPT !.status = status,
                                      !.approved_by = Some(approver_id),
                                      !.approved_at = Some(now)]}
             /\ decided' = Decided(expense_id, status)
             /\ response' = [op |-> op, code |-> 200]
     /\ UNCHANGED <<transactions, accounts,
                    invoices, invoice_items, budgets, budget_items,
                    pc, local, now, uuid, issued, composed>>

approve_expense(expense_id, approver_id) ==
  DecideExpense("approve_expense", expense_id, approver_id, "approved")

reject_expense(expense_id, approver_id) ==
  DecideExpense("reject_expense", expense_id, approver_id, "rejected")

\* class ExpenseUpdate: the fields a PUT /expenses/{id} body may carry.
ExpenseUpdate ==
  {"category", "amount", "currency", "description", "receipt_url",
   "expense_date", "project_id", "department_id"}

\* update_existing_expense -> update_expense lines 64-78
update_expense(expense_id, expense_data) ==
  LET found == get_expense_by_id(expense_id)
      update_data == ParseBody(ExpenseUpdate, expense_data)
  IN /\ IF IsNone(found)
        THEN /\ response' = [op |-> "update_expense", code |-> 404]
             /\ UNCHANGED expenses
        ELSE /\ expenses' = (expenses \ {Val(found)}) \cup
                            {ApplyPatch(Val(found), update_data, {})}
             /\ response' = [op |-> "update_expense", code |-> 200]
     /\ UNCHANGED <<transactions, accounts,
                    invoices, invoice_items, budgets, budget_items,
                    pc, local, now, uuid, issued, composed, decided>>

\* delete_existing_expense -> delete_expense lines 80-87
delete_expense(expense_id) ==
  LET found == get_expense_by_id(expense_id)
  IN /\ IF IsNone(found)
        THEN /\ response' = [op |-> "delete_expense", code |-> 404]
             /\ UNCHANGED expenses
        ELSE /\ expenses' = expenses \ {Val(found)}
             /\ response' = [op |-> "delete_expense", code |-> 204]
     /\ UNCHANGED <<transactions, accounts,
                    invoices, invoice_items, budgets, budget_items,
                    pc, local, now, uuid, issued, composed, decided>>

\* datetime.utcnow() reads a later time at a later request.
time_passes ==
  /\ now' = now + 1
  /\ UNCHANGED <<transactions, accounts,
                 invoices, invoice_items, budgets, budget_items, expenses,
                 pc, local, uuid, response, issued, composed, decided>>

\* ---------------------------------------------------- report aggregator

\* Query.scalar() of func.sum(col): NULL (None) when no row matches
ScalarSum(rows, col) == IF rows = {} THEN None ELSE Some(SumOver(rows, col))

\* pydantic BaseModel(**kwargs) for a model whose fields are all required:
\* keyword arguments that are not fields are ignored, a missing field raises
\* ValidationError (None)
BaseModel(fields, kwargs) ==
  IF fields \subseteq DOMAIN kwargs THEN Some([k \in fields |-> kwargs[k]]) ELSE None

\* schemas.py lines 233-240
FinancialSummary ==
  {"total_income", "total_expenses", "net_profit", "pending_invoices",
   "overdue_invoices", "period_start", "period_end"}

\* what a report endpoint answers: the report, or a server error when the
\* report object could not be built
Returned(op, report) ==
  IF IsNone(report) THEN [op |-> op, code |-> 500]
  ELSE [op |-> op, code |-> 200, body |-> Val(report)]

Paid(r, from_date, to_date) ==
  r.status = "paid" /\ r.issue_date >= from_date /\ r.issue_date <= to_date

Approved(r, from_date, to_date) ==
  r.status = "approved" /\ r.expense_date >= from_date /\ r.expense_date <= to_date

FinancialSummaryOf(total_income, total_expenses, pending, overdue, from_date, to_date) ==
  [total_income |-> total_income,
   total_expenses |-> total_expenses,
   net_profit |-> total_income - total_expenses,
   pending_invoices |-> pending,
   overdue_invoices |-> overdue,
   period_start |-> from_date,
   period_end |-> to_date]

get_financial_summary_data_exclusive_end(from_date, to_date) ==
  FinancialSummaryOf(
    SumOver({r \in invoices : r.status = "paid" /\ r.issue_date >= from_date
                              /\ r.issue_date < to_date}, "total_amount"),
    SumOver({r \in expenses : r.status = "approved" /\ r.expense_date >= from_date
                              /\ r.expense_date < to_date}, "amount"),
    SumOver({r \in invoices : r.status = "pending" /\ r.issue_date <= to_date}, "total_amount"),
    SumOver({r \in invoices : r.status = "overdue" /\ r.issue_date <= to_date}, "total_amount"),
    from_date, to_date)

get_financial_summary_data_windowed(from_date, to_date) ==
  FinancialSummaryOf(
    SumOver({r \in invoices : Paid(r, from_date, to_date)}, "total_amount"),
    SumOver({r \in expenses : Approved(r, from_date, to_date)}, "amount"),
    SumOver({r \in invoices : r.status = "pending" /\ r.issue_date >= from_date
                              /\ r.issue_date <= to_date}, "total_amount"),
    SumOver({r \in invoices : r.status = "overdue" /\ r.issue_date >= from_date
                              /\ r.issue_date <= to_date}, "total_amount"),
    from_date, to_date)

get_financial_summary_data_any_status(from_date, to_date) ==
  FinancialSummaryOf(
    SumOver({r \in invoices : r.issue_date >= from_date /\ r.issue_date <= to_date},
            "total_amount"),
    SumOver({r \in expenses : r.expense_date >= from_date /\ r.expense_date <= to_date},
            "amount"),
    SumOver({r \in invoices : r.status = "pending" /\ r.issue_date <= to_date}, "total_amount"),
    SumOver({r \in invoices : r.status = "overdue" /\ r.issue_date <= to_date}, "total_amount"),
    from_date, to_date)

\* crud/report.py get_financial_summary_data lines 11-56; each figure is
\* `query.scalar() or 0.0`
get_financial_summary_data(from_date, to_date) ==
  FinancialSummaryOf(
    OrElse(ScalarSum({r \in invoices : Paid(r, from_date, to_date)}, "total_amount"), 0),
    OrElse(ScalarSum({r \in expenses : Approved(r, from_date, to_date)}, "amount"), 0),
    OrElse(ScalarSum({r \in invoices : r.status = "pending" /\ r.issue_date <= to_date},
                     "total_amount"), 0),
    OrElse(ScalarSum({r \in invoices : r.status = "overdue" /\ r.issue_date <= to_date},
                     "total_amount"), 0),
    from_date, to_date)

\* services/finance_reports.py generate_financial_summary lines 16-41, called
\* by api/report.py get_financial_summary with an explicit window
generate_financial_summary(from_date, to_date) ==
  /\ \E summary_data \in {get_financial_summary_data(from_date, to_date)} :
     LET report == BaseModel(FinancialSummary,
                     [total_income |-> summary_data.total_income,
                      total_expenses |-> summary_data.total_expenses,
                      net_profit |-> summary_data.net_profit,
                      pending_invoices |-> summary_data.pending_invoices,
                      overdue_invoices |-> summary_data.overdue_invoices,
                      period_start |-> from_date,
                      period_end |-> to_date,
                      generated_at |-> now])
     IN response' = Returned("financial_summary", report)
  /\ UNCHANGED <<transactions, accounts,
                 invoices, invoice_items, budgets, budget_items, expenses,
                 pc, local, now, uuid, issued, composed, decided>>

\* ------------------------------------------------ accounts, transactions

AccountCreate(name, balance) ==
  [name |-> name, account_type |-> "bank", account_number |-> None,
   currency |-> "USD", balance |-> balance, is_active |-> TRUE]

\* crud/account.py create_account lines 10-24
create_account(account_data) ==
  /\ accounts' = accounts \cup
       {[id |-> uuid + 1,
         name |-> account_data.name,
         account_type |-> account_data.account_type,
         account_number |-> account_data.account_number,
         currency |-> account_data.currency,
         balance |-> account_data.balance,
         is_active |-> account_data.is_active,
         created_at |-> now]}
  /\ uuid' = uuid + 1
  /\ response' = [op |-> "create_account", code |-> 201]
  /\ UNCHANGED <<invoices, invoice_items, budgets, budget_items, expenses,
                 transactions, pc, local, now, issued, composed, decided>>

TransactionCreate(transaction_type, category, amount, transaction_date, account_id) ==
  [transaction_type |-> transaction_type, amount |-> amount, currency |-> "USD",
   description |-> None, transaction_date |-> transaction_date,
   account_id |-> account_id, category |-> category, reference_number |-> None,
   invoice_id |-> None, expense_id |-> None]

\* crud/transaction.py lines 27-33: the balance of the referenced account after
\* the posting
PostedBalance(db_account, transaction_data) ==
  IF transaction_data.transaction_type = "income"
  THEN db_account.balance + transaction_data.amount
  ELSE IF transaction_data.transaction_type = "expense"
       THEN db_account.balance - transaction_data.amount
       ELSE db_account.balance

\* crud/transaction.py create_transaction lines 10-37, one request at a time
create_transaction(transaction_data) ==
  /\ transactions' = transactions \cup
       {[id |-> uuid + 1,
         transaction_type |-> transaction_data.transaction_type,
         amount |-> transaction_data.amount,
         currency |-> transaction_data.currency,
         description |-> transaction_data.description,
         transaction_date |-> transaction_data.transaction_date,
         account_id |-> transaction_data.account_id,
         category |-> transaction_data.category,
         reference_number |-> transaction_data.reference_number,
         invoice_id |-> transaction_data.invoice_id,
         expense_id |-> transaction_data.expense_id,
         created_at |-> now]}
  /\ accounts' =
       {IF a.id = transaction_data.account_id
        THEN [a EXCEPT !.balance = PostedBalance(a, transaction_data)]
        ELSE a : a \in accounts}
  /\ uuid' = uuid + 1
  /\ response' = [op |-> "create_transaction", code |-> 201]
  /\ UNCHANGED <<invoices, invoice_items, budgets, budget_items, expenses,
                 pc, local, now, issued, composed, decided>>

get_account_by_id(account_id) ==
  IF \E a \in accounts : a.id = account_id
  THEN Some(CHOOSE a \in accounts : a.id = account_id)
  ELSE None

\* crud/transaction.py lines 11-25: the row is built and added to the session
create_transaction_add(p, transaction_data) ==
  /\ pc[p] = "idle"
  /\ pc' = [pc EXCEPT ![p] = "txn_added"]
  /\ local' = [local EXCEPT ![p] =
       [at |-> "txn_added",
        transaction_data |-> transaction_data,
        db_account |-> None,
        db_transaction |->
          [id |-> uuid + 1,
           transaction_type |-> transaction_data.transaction_type,
           amount |-> transaction_data.amount,
           currency |-> transaction_data.currency,
           description |-> transaction_data.description,
           transaction_date |-> transaction_data.transaction_date,
           account_id |-> transaction_data.account_id,
           category |-> transaction_data.category,
           reference_number |-> transaction_data.reference_number,
           invoice_id |-> transaction_data.invoice_id,
           expense_id |-> transaction_data.expense_id,
           created_at |-> now]]]
  /\ uuid' = uuid + 1
  /\ UNCHANGED <<invoices, invoice_items, budgets, budget_items, expenses,
                 transactions, accounts, now, response, issued, composed, decided>>

create_transaction_query_autocommit(p) ==
  /\ pc[p] = "txn_added"
  /\ pc' = [pc EXCEPT ![p] = "txn_read"]
  /\ local' = [local EXCEPT ![p] =
       [local[p] EXCEPT !.at = "txn_read",
                        !.db_account =
                           get_account_by_id(local[p].transaction_data.account_id)]]
  /\ transactions' = transactions \cup {local[p].db_transaction}
  /\ UNCHANGED <<invoices, invoice_items, budgets, budget_items, expenses,
                 accounts, now, uuid, response, issued, composed, decided>>

\* line 28: the query flushes the INSERT into the session's open transaction,
\* where no other session sees it, and reads the committed account row
create_transaction_query(p) ==
  /\ pc[p] = "txn_added"
  /\ pc' = [pc EXCEPT ![p] = "txn_read"]
  /\ local' = [local EXCEPT ![p] =
       [local[p] EXCEPT !.at = "txn_read",
                        !.db_account =
                           get_account_by_id(local[p].transaction_data.account_id)]]
  /\ UNCHANGED <<invoices, invoice_items, budgets, budget_items, expenses,
                 transactions, accounts, now, uuid, response, issued, composed, decided>>

\* lines 29-37: the balance is computed from the row that was read and
\* db.commit() writes it, UPDATE accounts SET balance = <that value>, together
\* with the INSERT; a type other than 'income' and 'expense', or no account,
\* leaves nothing to update
create_transaction_commit(p) ==
  /\ pc[p] = "txn_read"
  /\ LET d == local[p].transaction_data
         db_account == local[p].db_account
         dirty == /\ ~IsNone(db_account)
                  /\ d.transaction_type \in {"income", "expense"}
     IN /\ transactions' = transactions \cup {local[p].db_transaction}
        /\ accounts' = IF dirty
                       THEN {IF a.id = d.account_id
                             THEN [a EXCEPT !.balance = PostedBalance(Val(db_account), d)]
                             ELSE a : a \in accounts}
                       ELSE accounts
        /\ response' = [op |-> "create_transaction", code |-> 201]
  /\ pc' = [pc EXCEPT ![p] = "idle"]
  /\ local' = [local EXCEPT ![p] = Idle]
  /\ UNCHANGED <<invoices, invoice_items, budgets, budget_items, expenses,
                 now, uuid, issued, composed, decided>>

\* ------------------------------------------- lookups and generic updates

get_transaction_by_id(transaction_id) ==
  IF \E t \in transactions : t.id = transaction_id
  THEN Some(CHOOSE t \in transactions : t.id = transaction_id)
  ELSE None

Lookup_null_body(op, found) ==
  /\ response' = [op |-> op, code |-> 200, body |-> found]
  /\ UNCHANGED <<invoices, invoice_items, budgets, budget_items, expenses,
                 transactions, accounts, pc, local, now, uuid, issued, composed,
                 decided>>

\* A GET /{id} route (and POST /invoices/{id}/send, which only looks the
\* invoice up): 404 when the lookup misses, the row otherwise; nothing is
\* written.
Lookup(op, found) ==
  /\ response' = IF IsNone(found)
                 THEN [op |-> op, code |-> 404]
                 ELSE [op |-> op, code |-> 200, body |-> Val(found)]
  /\ UNCHANGED <<invoices, invoice_items, budgets, budget_items, expenses,
                 transactions, accounts, pc, local, now, uuid, issued, composed,
                 decided>>

get_invoice(invoice_id) == Lookup("get_invoice", get_invoice_by_id(invoice_id))

send_invoice_to_client(invoice_id) ==
  Lookup("send_invoice_to_client", get_invoice_by_id(invoice_id))

get_budget(budget_id) == Lookup("get_budget", get_budget_by_id(budget_id))

get_expense(expense_id) == Lookup("get_expense", get_expense_by_id(expense_id))

get_account(account_id) == Lookup("get_account", get_account_by_id(account_id))

get_transaction(transaction_id) ==
  Lookup("get_transaction", get_transaction_by_id(transaction_id))

\* class BudgetUpdate and class AccountUpdate: the fields a PUT body may carry.
BudgetUpdate == {"name", "description", "amount", "start_date", "end_date"}

AccountUpdate == {"name", "account_number", "is_active", "balance"}

\* update_existing_budget -> update_budget lines 66-80
update_budget(budget_id, budget_data) ==
  LET found == get_budget_by_id(budget_id)
      update_data == ParseBody(BudgetUpdate, budget_data)
  IN /\ IF IsNone(found)
        THEN /\ response' = [op |-> "update_budget", code |-> 404]
             /\ UNCHANGED budgets
        ELSE /\ budgets' = (budgets \ {Val(found)}) \cup
                           {ApplyPatch(Val(found), update_data, {})}
             /\ response' = [op |-> "update_budget", code |-> 200]
     /\ UNCHANGED <<invoices, invoice_items, budget_items, expenses,
                    transactions, accounts, pc, local, now, uuid, issued, composed,
                    decided>>

\* update_existing_account -> update_account lines 43-57
update_account(account_id, account_data) ==
  LET found == get_account_by_id(account_id)
      update_data == ParseBody(AccountUpdate, account_data)
  IN /\ IF IsNone(found)
        THEN /\ response' = [op |-> "update_account", code |-> 404]
             /\ UNCHANGED accounts
        ELSE /\ accounts' = (accounts \ {Val(found)}) \cup
                            {ApplyPatch(Val(found), update_data, {})}
             /\ response' = [op |-> "update_account", code |-> 200]
     /\ UNCHANGED <<invoices, invoice_items, budgets, budget_items, expenses,
                    transactions, pc, local, now, uuid, issued, composed, decided>>

\* delete_existing_account -> delete_account lines 59-66
delete_account(account_id) ==
  LET found == get_account_by_id(account_id)
  IN /\ IF IsNone(found)
        THEN /\ response' = [op |-> "delete_account", code |-> 404]
             /\ UNCHANGED accounts
        ELSE /\ accounts' = accounts \ {Val(found)}
             /\ response' = [op |-> "delete_account", code |-> 204]
     /\ UNCHANGED <<invoices, invoice_items, budgets, budget_items, expenses,
                    transactions, pc, local, now, uuid, issued, composed, decided>>

\* ------------------------------------------------------ grouped reports

\* datetimes are day numbers, day 1 being 2024-01-01
DaysInMonth == <<31, 29, 31, 30, 31, 30, 31, 31, 30, 31, 30, 31>>

RECURSIVE MonthOf(_, _)
\* the month of a day number counted from the first day of month m
MonthOf(day, m) ==
  IF m = Len(DaysInMonth) \/ day <= DaysInMonth[m] THEN m
  ELSE MonthOf(day - DaysInMonth[m], m + 1)

\* date_trunc('month', date).strftime('%Y-%m')
MonthKey(date) ==
  CHOOSE key \in {<<"2", "0", "2", "4", "-">> \o ZeroPad(DigitsOf(MonthOf(d, 1)), 2) :
                   d \in {date}} : TRUE

\* SELECT key, sum(col) ... GROUP BY key, loaded into a dict
GroupSum(rows, key(_), col) ==
  [k \in {key(r) : r \in rows} |-> SumOver({r \in rows : key(r) = k}, col)]

RECURSIVE SumKeys(_, _)
SumKeys(map, keys) ==
  IF keys = {} THEN 0
  ELSE LET k == CHOOSE x \in keys : TRUE
       IN map[k] + SumKeys(map, keys \ {k})

\* sum(map.values())
SumValues(map) == SumKeys(map, DOMAIN map)

get_profit_loss_data_all_types(from_date, to_date) ==
  LET income_by_category ==
        GroupSum({r \in transactions : /\ r.transaction_date >= from_date
                                       /\ r.transaction_date <= to_date},
                 LAMBDA r : r.category, "amount")
      expense_by_category ==
        GroupSum({r \in expenses : Approved(r, from_date, to_date)},
                 LAMBDA r : r.category, "amount")
  IN [income |-> income_by_category,
      expenses |-> expense_by_category,
      net_profit |-> SumValues(income_by_category) - SumValues(expense_by_category),
      period_start |-> from_date,
      period_end |-> to_date]

\* crud/report.py get_profit_loss_data lines 58-101
get_profit_loss_data(from_date, to_date) ==
  LET income_by_category ==
        GroupSum({r \in transactions : /\ r.transaction_type = "income"
                                       /\ r.transaction_date >= from_date
                                       /\ r.transaction_date <= to_date},
                 LAMBDA r : r.category, "amount")
      expense_by_category ==
        GroupSum({r \in expenses : Approved(r, from_date, to_date)},
                 LAMBDA r : r.category, "amount")
  IN [income |-> income_by_category,
      expenses |-> expense_by_category,
      net_profit |-> SumValues(income_by_category) - SumValues(expense_by_category),
      period_start |-> from_date,
      period_end |-> to_date]

get_revenue_data_zero_filled(from_date, to_date) ==
  LET paid == {r \in invoices : Paid(r, from_date, to_date)}
  IN [total_revenue |-> OrElse(ScalarSum(paid, "total_amount"), 0),
      by_client |-> [k \in {r.client_id : r \in invoices} |->
                       SumOver({r \in paid : r.client_id = k}, "total_amount")],
      by_project |-> GroupSum({r \in paid : ~IsNone(r.project_id)},
                              LAMBDA r : Val(r.project_id), "total_amount"),
      by_month |-> GroupSum(paid, LAMBDA r : MonthKey(r.issue_date), "total_amount"),
      period_start |-> from_date,
      period_end |-> to_date]

get_revenue_data_by_due_month(from_date, to_date) ==
  LET paid == {r \in invoices : Paid(r, from_date, to_date)}
  IN [total_revenue |-> OrElse(ScalarSum(paid, "total_amount"), 0),
      by_client |-> GroupSum(paid, LAMBDA r : r.client_id, "total_amount"),
      by_project |-> GroupSum({r \in paid : ~IsNone(r.project_id)},
                              LAMBDA r : Val(r.project_id), "total_amount"),
      by_month |-> GroupSum(paid, LAMBDA r : MonthKey(r.due_date), "total_amount"),
      period_start |-> from_date,
      period_end |-> to_date]

get_revenue_data_clients_any_status(from_date, to_date) ==
  LET paid == {r \in invoices : Paid(r, from_date, to_date)}
      issued_in == {r \in invoices : r.issue_date >= from_date /\ r.issue_date <= to_date}
  IN [total_revenue |-> OrElse(ScalarSum(paid, "total_amount"), 0),
      by_client |-> GroupSum(issued_in, LAMBDA r : r.client_id, "total_amount"),
      by_project |-> GroupSum({r \in paid : ~IsNone(r.project_id)},
                              LAMBDA r : Val(r.project_id), "total_amount"),
      by_month |-> GroupSum(paid, LAMBDA r : MonthKey(r.issue_date), "total_amount"),
      period_start |-> from_date,
      period_end |-> to_date]

\* crud/report.py get_revenue_data lines 103-166
get_revenue_data(from_date, to_date) ==
  LET paid == {r \in invoices : Paid(r, from_date, to_date)}
  IN [total_revenue |-> OrElse(ScalarSum(paid, "total_amount"), 0),
      by_client |-> GroupSum(paid, LAMBDA r : r.client_id, "total_amount"),
      by_project |-> GroupSum({r \in paid : ~IsNone(r.project_id)},
                              LAMBDA r : Val(r.project_id), "total_amount"),
      by_month |-> GroupSum(paid, LAMBDA r : MonthKey(r.issue_date), "total_amount"),
      period_start |-> from_date,
      period_end |-> to_date]

\* crud/report.py get_expense_data lines 168-246
get_expense_data(from_date, to_date) ==
  LET approved == {r \in expenses : Approved(r, from_date, to_date)}
  IN [total_expenses |-> OrElse(ScalarSum(approved, "amount"), 0),
      by_category |-> GroupSum(approved, LAMBDA r : r.category, "amount"),
      by_employee |-> GroupSum(approved, LAMBDA r : r.employee_id, "amount"),
      by_project |-> GroupSum({r \in approved : ~IsNone(r.project_id)},
                              LAMBDA r : Val(r.project_id), "amount"),
      by_month |-> GroupSum(approved, LAMBDA r : MonthKey(r.expense_date), "amount"),
      period_start |-> from_date,
      period_end |-> to_date]

ProjectBudget_strict_overlap(project_id, from_date, to_date) ==
  LET overlapping == {b \in budgets : /\ b.project_id = Some(project_id)
                                      /\ b.start_date < to_date
                                      /\ b.end_date > from_date}
  IN IF overlapping = {} THEN None
     ELSE Some(CHOOSE b \in overlapping :
                 \A o \in overlapping : o.created_at <= b.created_at)

\* crud/report.py lines 277-281: the project's budgets overlapping the window,
\* most recently created first
ProjectBudget(project_id, from_date, to_date) ==
  LET overlapping == {b \in budgets : /\ b.project_id = Some(project_id)
                                      /\ b.start_date <= to_date
                                      /\ b.end_date >= from_date}
  IN IF overlapping = {} THEN None
     ELSE Some(CHOOSE b \in overlapping :
                 \A o \in overlapping : o.created_at <= b.created_at)

get_project_finance_data_all_projects(project_id, from_date, to_date) ==
  LET total_revenue ==
        OrElse(ScalarSum({r \in invoices : Paid(r, from_date, to_date)}, "total_amount"), 0)
      total_expenses ==
        OrElse(ScalarSum({r \in expenses : Approved(r, from_date, to_date)}, "amount"), 0)
      budget_query == ProjectBudget(project_id, from_date, to_date)
  IN [project_id |-> project_id,
      project_name |-> <<"Project ", project_id>>,
      total_revenue |-> total_revenue,
      total_expenses |-> total_expenses,
      profit |-> total_revenue - total_expenses,
      budget_amount |-> IF IsNone(budget_query) THEN 0 ELSE Val(budget_query).amount,
      budget_remaining |-> IF IsNone(budget_query) THEN 0
                           ELSE Val(budget_query).amount - total_expenses,
      invoices |-> {r \in invoices : /\ r.project_id = Some(project_id)
                                     /\ r.issue_date >= from_date
                                     /\ r.issue_date <= to_date},
      expenses |-> {r \in expenses : /\ r.project_id = Some(project_id)
                                     /\ r.expense_date >= from_date
                                     /\ r.expense_date <= to_date},
      period_start |-> from_date,
      period_end |-> to_date]

\* crud/report.py get_project_finance_data lines 248-315
get_project_finance_data(project_id, from_date, to_date) ==
  LET total_revenue ==
        OrElse(ScalarSum({r \in invoices : /\ r.project_id = Some(project_id)
                                           /\ Paid(r, from_date, to_date)},
                         "total_amount"), 0)
      total_expenses ==
        OrElse(ScalarSum({r \in expenses : /\ r.project_id = Some(project_id)
                                           /\ Approved(r, from_date, to_date)},
                         "amount"), 0)
      budget_query == ProjectBudget(project_id, from_date, to_date)
  IN [project_id |-> project_id,
      project_name |-> <<"Project ", project_id>>,
      total_revenue |-> total_revenue,
      total_expenses |-> total_expenses,
      profit |-> total_revenue - total_expenses,
      budget_amount |-> IF IsNone(budget_query) THEN 0 ELSE Val(budget_query).amount,
      budget_remaining |-> IF IsNone(budget_query) THEN 0
                           ELSE Val(budget_query).amount - total_expenses,
      invoices |-> {r \in invoices : /\ r.project_id = Some(project_id)
                                     /\ r.issue_date >= from_date
                                     /\ r.issue_date <= to_date},
      expenses |-> {r \in expenses : /\ r.project_id = Some(project_id)
                                     /\ r.expense_date >= from_date
                                     /\ r.expense_date <= to_date},
      period_start |-> from_date,
      period_end |-> to_date]

\* ------------------------------------------------------ report generators

\* schemas.py lines 242-247
ProfitLossReport == {"income", "expenses", "net_profit", "period_start", "period_end"}

\* schemas.py lines 249-255
RevenueReport ==
  {"total_revenue", "by_client", "by_project", "by_month", "period_start", "period_end"}

\* schemas.py lines 257-264
ExpenseReport ==
  {"total_expenses", "by_category", "by_employee", "by_project", "by_month",
   "period_start", "period_end"}

\* schemas.py lines 266-277
ProjectFinanceReport ==
  {"project_id", "project_name", "total_revenue", "total_expenses", "profit",
   "budget_amount", "budget_remaining", "invoices", "expenses",
   "period_start", "period_end"}

\* schemas.py lines 53-59 and 75-84: the fields of InvoiceResponse without a default
InvoiceResponse ==
  {"client_id", "due_date", "id", "invoice_number", "amount", "tax_amount",
   "total_amount", "status", "created_at", "updated_at"}

\* schemas.py lines 90-99 and 114-120: the fields of ExpenseResponse without a default
ExpenseResponse ==
  {"employee_id", "category", "amount", "expense_date", "id", "status",
   "created_at", "updated_at"}

\* [{key_name: k, "amount": v} for k, v in map.items()]
MapItems(map, key_name) ==
  {[x \in {key_name, "amount"} |-> IF x = "amount" THEN map[k] ELSE k] : k \in DOMAIN map}

\* a report generator has fetched the aggregator's raw data
ReportQuery(p, at, data) ==
  /\ pc[p] = "idle"
  /\ pc' = [pc EXCEPT ![p] = at]
  /\ local' = [local EXCEPT ![p] = data]
  /\ UNCHANGED <<invoices, invoice_items, budgets, budget_items, expenses,
                 transactions, accounts, now, uuid, response, issued, composed, decided>>

\* a report generator builds the report object and the endpoint answers
ReportReturn(p, at, op, report) ==
  /\ pc[p] = at
  /\ pc' = [pc EXCEPT ![p] = "idle"]
  /\ local' = [local EXCEPT ![p] = Idle]
  /\ response' = Returned(op, report)
  /\ UNCHANGED <<invoices, invoice_items, budgets, budget_items, expenses,
                 transactions, accounts, now, uuid, issued, composed, decided>>

\* finance_reports.py generate_profit_loss_report line 56
generate_profit_loss_report_query(p, from_date, to_date) ==
  ReportQuery(p, "profit_loss_data",
              [from_date |-> from_date, to_date |-> to_date,
               profit_loss_data |-> get_profit_loss_data(from_date, to_date)])

\* finance_reports.py generate_profit_loss_report lines 59-79
generate_profit_loss_report_return(p) ==
  ReportReturn(p, "profit_loss_data", "profit_loss_report",
    LET profit_loss_data == local[p].profit_loss_data
        income_categories == MapItems(profit_loss_data.income, "category")
        expense_categories == MapItems(profit_loss_data.expenses, "category")
    IN BaseModel(ProfitLossReport,
         [income_categories |-> income_categories,
          total_income |-> SumValues(profit_loss_data.income),
          expense_categories |-> expense_categories,
          total_expenses |-> SumValues(profit_loss_data.expenses),
          net_profit |-> profit_loss_data.net_profit,
          period_start |-> local[p].from_date,
          period_end |-> local[p].to_date,
          generated_at |-> now]))

\* finance_reports.py generate_revenue_report line 94
generate_revenue_report_query(p, from_date, to_date) ==
  ReportQuery(p, "revenue_data",
              [from_date |-> from_date, to_date |-> to_date,
               revenue_data |-> get_revenue_data(from_date, to_date)])

\* finance_reports.py generate_revenue_report lines 97-123
generate_revenue_report_return(p) ==
  ReportReturn(p, "revenue_data", "revenue_report",
    LET revenue_data == local[p].revenue_data
    IN BaseModel(RevenueReport,
         [total_revenue |-> revenue_data.total_revenue,
          client_revenue |-> MapItems(revenue_data.by_client, "client_id"),
          project_revenue |-> MapItems(revenue_data.by_project, "project_id"),
          monthly_revenue |-> MapItems(revenue_data.by_month, "month"),
          period_start |-> local[p].from_date,
          period_end |-> local[p].to_date,
          generated_at |-> now]))

\* finance_reports.py generate_expense_report line 138
generate_expense_report_query(p, from_date, to_date) ==
  ReportQuery(p, "expense_data",
              [from_date |-> from_date, to_date |-> to_date,
               expense_data |-> get_expense_data(from_date, to_date)])

\* finance_reports.py generate_expense_report lines 141-174
generate_expense_report_return(p) ==
  ReportReturn(p, "expense_data", "expense_report",
    LET expense_data == local[p].expense_data
    IN BaseModel(ExpenseReport,
         [total_expenses |-> expense_data.total_expenses,
          category_expenses |-> MapItems(expense_data.by_category, "category"),
          employee_expenses |-> MapItems(expense_data.by_employee, "employee_id"),
          project_expenses |-> MapItems(expense_data.by_project, "project_id"),
          monthly_expenses |-> MapItems(expense_data.by_month, "month"),
          period_start |-> local[p].from_date,
          period_end |-> local[p].to_date,
          generated_at |-> now]))

\* finance_reports.py generate_project_finance_report line 190
generate_project_finance_report_query(p, project_id, from_date, to_date) ==
  ReportQuery(p, "project_data",
              [project_id |-> project_id, from_date |-> from_date, to_date |-> to_date,
               project_data |-> get_project_finance_data(project_id, from_date, to_date)])

\* finance_reports.py generate_project_finance_report lines 193-230; the
\* elements of invoices and expenses are validated as InvoiceResponse and
\* ExpenseResponse
generate_project_finance_report_return(p) ==
  ReportReturn(p, "project_data", "project_finance_report",
    LET project_data == local[p].project_data
        invoice_dicts ==
          {[invoice_id |-> invoice.id,
            invoice_number |-> invoice.invoice_number,
            issue_date |-> invoice.issue_date,
            due_date |-> invoice.due_date,
            amount |-> invoice.total_amount,
            status |-> invoice.status] : invoice \in project_data.invoices}
        expense_dicts ==
          {[expense_id |-> expense.id,
            category |-> expense.category,
            expense_date |-> expense.expense_date,
            amount |-> expense.amount,
            status |-> expense.status] : expense \in project_data.expenses}
        invoice_models == {BaseModel(InvoiceResponse, d) : d \in invoice_dicts}
        expense_models == {BaseModel(ExpenseResponse, d) : d \in expense_dicts}
    IN IF None \in invoice_models \cup expense_models THEN None
       ELSE BaseModel(ProjectFinanceReport,
              [project_id |-> local[p].project_id,
               project_name |-> project_data.project_name,
               total_revenue |-> project_data.total_revenue,
               total_expenses |-> project_data.total_expenses,
               profit |-> project_data.profit,
               budget_amount |-> project_data.budget_amount,
               budget_remaining |-> project_data.budget_remaining,
               invoices |-> {Val(m) : m \in invoice_models},
               expenses |-> {Val(m) : m \in expense_models},
               period_start |-> local[p].from_date,
               period_end |-> local[p].to_date,
               generated_at |-> now]))

\* ------------------------------------------------------------------- specs

NoResponse == [op |-> "none", code |-> 0]

\* The store after create_tables(): every table is empty, no request is running
Init ==
  /\ invoices = {}
  /\ invoice_items = {}
  /\ budgets = {}
  /\ budget_items = {}
  /\ expenses = {}
  /\ transactions = {}
  /\ accounts = {}
  /\ pc = [p \in Procs |-> "idle"]
  /\ local = [p \in Procs |-> Idle]
  /\ now = 0
  /\ uuid = 0
  /\ response = NoResponse
  /\ issued = 0
  /\ composed = <<>>
  /\ decided = <<>>

AllIdle == \A p \in Procs : pc[p] = "idle"

\* Requests of the concurrent specifications
RaceInvoiceRequests ==
  { InvoiceCreate(None, Some(1), <<Item(2, 3, None), Item(1, 2, Some(7))>>, Some(1)) }

RaceBudgetRequests ==
  { BudgetCreate(Some("p1"), 5, 1, 2, <<BudgetItem("travel", 2), BudgetItem("food", 3)>>) }

\* SpecRace: two workers compose invoices and budgets concurrently, requests
\* fail at any step, headers are deleted.
NextRace ==
  \/ \E p \in Procs, d \in RaceInvoiceRequests :
        uuid < MaxCreates /\ create_invoice_query(p, d)
  \/ \E p \in Procs : create_invoice_flush(p)
  \/ \E p \in Procs : create_invoice_commit(p)
  \/ \E p \in Procs, d \in RaceBudgetRequests :
        uuid < MaxCreates /\ create_budget_flush(p, d)
  \/ \E p \in Procs : create_budget_commit(p)
  \/ \E p \in Procs : request_fails(p)
  \/ \E i \in 1..MaxCreates : delete_invoice(i)
  \/ \E i \in 1..MaxCreates : delete_budget(i)

SpecRace == Init /\ [][NextRace]_vars

\* SpecNumbering: two workers create invoices concurrently while invoices are
\* deleted; only the numbering varies.
NextNumbering ==
  \/ \E p \in Procs, d \in RaceInvoiceRequests :
        uuid < MaxNumbered /\ create_invoice_query(p, d)
  \/ \E p \in Procs : create_invoice_flush(p)
  \/ \E p \in Procs : create_invoice_commit(p)
  \/ \E i \in 1..MaxNumbered : delete_invoice(i)

SpecNumbering == Init /\ [][NextNumbering]_vars

\* SpecSeq: the operations on invoices run one after the other (one request
\* at a time).
NextSeq ==
  \/ \E d \in RaceInvoiceRequests :
        uuid < MaxNumbered /\ create_invoice_query("w1", d)
  \/ create_invoice_flush("w1")
  \/ create_invoice_commit("w1")
  \/ \E i \in 1..MaxNumbered : AllIdle /\ update_invoice(i, [tax_amount |-> Some(2)])
  \/ \E i \in 1..MaxNumbered : AllIdle /\ mark_invoice_paid(i)
  \/ \E i \in 1..MaxNumbered : AllIdle /\ delete_invoice(i)

SpecSeq == Init /\ [][NextSeq]_vars

\* Spec: the life cycle of invoices, one request at a time, with every kind
\* of request and patch.
Next ==
  \/ \E d \in InvoiceRequests :
        uuid < MaxInvoices /\ create_invoice_query("w1", d)
  \/ create_invoice_flush("w1")
  \/ create_invoice_commit("w1")
  \/ \E i \in 1..MaxInvoices, d \in InvoicePatches : AllIdle /\ update_invoice(i, d)
  \/ \E i \in 1..MaxInvoices : AllIdle /\ mark_invoice_paid(i)
  \/ \E i \in 1..MaxInvoices : AllIdle /\ delete_invoice(i)

Spec == Init /\ [][Next]_vars

\* Requests of the report specification: a row's date and amount go together
ReportInvoiceRequests ==
  { InvoiceCreate(None, Some(1), <<Item(2, 3, None)>>, Some(1)),
    InvoiceCreate(Some("p1"), Some(2), <<Item(1, 3, None)>>, Some(1)) }

ReportExpenseRequests ==
  { ExpenseCreate("travel", 2, 2, None),
    ExpenseCreate("food", 5, 3, Some("p1")) }

\* the dates a report window is drawn from: the dates of the requests
Dates == {1, 2, 3}

\* SpecReport: a ledger of invoices and expenses in every status, and the
\* Financial Summary over every window.
NextReport ==
  \/ \E d \in ReportInvoiceRequests :
        uuid < MaxLedger /\ create_invoice_query("w1", d)
  \/ create_invoice_flush("w1")
  \/ create_invoice_commit("w1")
  \/ \E i \in 1..MaxLedger : AllIdle /\ mark_invoice_paid(i)
  \/ \E i \in 1..MaxLedger : AllIdle /\ update_invoice(i, [status |-> Some("overdue")])
  \/ \E d \in ReportExpenseRequests : AllIdle /\ uuid < MaxLedger /\ create_expense(d)
  \/ \E i \in 1..MaxLedger : AllIdle /\ approve_expense(i, "u1")
  \/ \E f \in Dates, t \in Dates : AllIdle /\ generate_financial_summary(f, t)

SpecReport == Init /\ [][NextReport]_vars

\* ---- report routes: the default window ----
\* A datetime of the report routes carries a time of day: it counts half days,
\* 2 * (day - 1) at 00:00 and one more at 12:00, day 1 being 2024-01-01.
DateTime(day, half) == 2 * (day - 1) + half

\* datetime.date() as a day number, and the half of the day
DateOf(t) == (t \div 2) + 1

TimeOf(t) == t % 2

\* timedelta(days=n)
timedelta(days) == 2 * days

RECURSIVE DayInMonth(_, _)
\* datetime.day: the day of the month of a day number counted from the first
\* day of month m
DayInMonth(day, m) ==
  IF m = Len(DaysInMonth) \/ day <= DaysInMonth[m] THEN day
  ELSE DayInMonth(day - DaysInMonth[m], m + 1)

\* datetime.replace(day=d): same month, same time of day
replace_day(t, d) ==
  DateTime(DateOf(t) - DayInMonth(DateOf(t), 1) + d, TimeOf(t))

\* datetime.now().replace(day=1, hour=0, minute=0, second=0, microsecond=0)
DefaultFromDate(today) == DateTime(DateOf(replace_day(today, 1)), 0)

\* next_month = from_date.replace(day=28) + timedelta(days=4)
\* to_date = next_month - timedelta(days=next_month.day)
DefaultToDate(from_date) ==
  LET next_month == replace_day(from_date, 28) + timedelta(4)
  IN next_month - timedelta(DayInMonth(DateOf(next_month), 1))

\* GET /reports/summary: today is the value of datetime.now()
get_financial_summary(from_date, to_date, today) ==
  \E f \in {IF IsNone(from_date) THEN DefaultFromDate(today) ELSE Val(from_date)} :
    \E t \in {IF IsNone(to_date) THEN DefaultToDate(f) ELSE Val(to_date)} :
      generate_financial_summary(f, t)

\* Requests of the default-window specification: invoices issued on 31 January
\* at 00:00 and at 12:00, expenses dated 31 January at 12:00 and 1 February
MonthInvoiceRequests ==
  { InvoiceCreate(None, Some(DateTime(31, 0)), <<Item(2, 3, None)>>, Some(1)),
    InvoiceCreate(None, Some(DateTime(31, 1)), <<Item(1, 3, None)>>, Some(1)) }

MonthExpenseRequests ==
  { ExpenseCreate("travel", 2, DateTime(31, 1), None),
    ExpenseCreate("food", 5, DateTime(32, 0), None) }

\* the moments of January at which a report is requested
Todays == {DateTime(15, 1), DateTime(31, 1)}

\* SpecMonth: a ledger of January's last day, and the Financial Summary
\* requested with neither from_date nor to_date.
NextMonth ==
  \/ \E d \in MonthInvoiceRequests :
        uuid < MaxLedger /\ create_invoice_query("w1", d)
  \/ create_invoice_flush("w1")
  \/ create_invoice_commit("w1")
  \/ \E i \in 1..MaxLedger : AllIdle /\ mark_invoice_paid(i)
  \/ \E d \in MonthExpenseRequests : AllIdle /\ uuid < MaxLedger /\ create_expense(d)
  \/ \E i \in 1..MaxLedger : AllIdle /\ approve_expense(i, "u1")
  \/ \E today \in Todays : AllIdle /\ get_financial_summary(None, None, today)

SpecMonth == Init /\ [][NextMonth]_vars

\* Requests of the grouped-report specification: two clients, a project, the
\* last day of January and the first day of February
BooksInvoiceRequests ==
  { InvoiceCreate(None, Some(31), <<Item(2, 3, None)>>, Some(1)),
    [InvoiceCreate(Some("p1"), Some(32), <<Item(1, 3, None)>>, Some(1))
       EXCEPT !.client_id = "c2"] }

BooksExpenseRequests ==
  { ExpenseCreate("travel", 2, 31, None),
    [ExpenseCreate("food", 5, 32, Some("p1")) EXCEPT !.employee_id = "e2"] }

BooksTransactionRequests ==
  { TransactionCreate("income", "sales", 3, 31, 1),
    TransactionCreate("income", "services", 6, 32, 1),
    TransactionCreate("expense", "rent", 2, 32, 1) }

BooksDates == {31, 32}

\* SpecBooks: a ledger of invoices, expenses, transactions and an account, and
\* the Profit/Loss, Revenue and Expense reports over every window.
NextBooks ==
  \/ \E d \in BooksInvoiceRequests :
        uuid < MaxBooks /\ create_invoice_query("w1", d)
  \/ create_invoice_flush("w1")
  \/ create_invoice_commit("w1")
  \/ \E i \in 1..MaxBooks : AllIdle /\ mark_invoice_paid(i)
  \/ \E d \in BooksExpenseRequests : AllIdle /\ uuid < MaxBooks /\ create_expense(d)
  \/ \E i \in 1..MaxBooks : AllIdle /\ approve_expense(i, "u1")
  \/ AllIdle /\ uuid < MaxBooks /\ create_account(AccountCreate("main", 10))
  \/ \E d \in BooksTransactionRequests :
        AllIdle /\ uuid < MaxBooks /\ create_transaction(d)
  \/ \E f \in BooksDates, t \in BooksDates : generate_profit_loss_report_query("w1", f, t)
  \/ generate_profit_loss_report_return("w1")
  \/ \E f \in BooksDates, t \in BooksDates : generate_revenue_report_query("w1", f, t)
  \/ generate_revenue_report_return("w1")
  \/ \E f \in BooksDates, t \in BooksDates : generate_expense_report_query("w1", f, t)
  \/ generate_expense_report_return("w1")

SpecBooks == Init /\ [][NextBooks]_vars

\* Requests of the project-report specification: an invoice and an expense of
\* project p1 dated 32, two budgets of p1 ([31, 32] and [33, 34]) and one of p2
ProjectInvoiceRequests ==
  { InvoiceCreate(Some("p1"), Some(32), <<Item(1, 3, None)>>, Some(1)) }

ProjectExpenseRequests ==
  { ExpenseCreate("food", 5, 32, Some("p1")) }

ProjectBudgetRequests ==
  { BudgetCreate(Some("p1"), 3, 31, 32, <<>>),
    BudgetCreate(Some("p1"), 9, 33, 34, <<>>),
    BudgetCreate(Some("p2"), 8, 31, 34, <<>>) }

ProjectDates == {32, 33}

Projects == {"p1", "p2"}

\* SpecProject: invoices, expenses and budgets of projects, and the Project
\* Finance report of every project over every window.
NextProject ==
  \/ \E d \in ProjectInvoiceRequests :
        uuid < MaxProject /\ create_invoice_query("w1", d)
  \/ create_invoice_flush("w1")
  \/ create_invoice_commit("w1")
  \/ \E i \in 1..MaxProject : AllIdle /\ mark_invoice_paid(i)
  \/ \E d \in ProjectExpenseRequests : AllIdle /\ uuid < MaxProject /\ create_expense(d)
  \/ \E i \in 1..MaxProject : AllIdle /\ approve_expense(i, "u1")
  \/ \E d \in ProjectBudgetRequests :
        uuid < MaxProject /\ create_budget_flush("w1", d)
  \/ create_budget_commit("w1")
  \/ \E q \in Projects, f \in ProjectDates, t \in ProjectDates :
        generate_project_finance_report_query("w1", q, f, t)
  \/ generate_project_finance_report_return("w1")

SpecProject == Init /\ [][NextProject]_vars

\* Requests of the report-agreement specification: invoices without project,
\* of project p1 and of project p2, expenses with and without project, dated
\* on the last day of January and the first day of February
AgreeInvoiceRequests ==
  { InvoiceCreate(None, Some(31), <<Item(2, 3, None)>>, Some(1)),
    InvoiceCreate(Some("p1"), Some(32), <<Item(1, 3, None)>>, Some(1)),
    InvoiceCreate(Some("p2"), Some(32), <<Item(1, 2, None)>>, None) }

AgreeExpenseRequests ==
  { ExpenseCreate("travel", 2, 31, None),
    ExpenseCreate("food", 5, 32, Some("p1")) }

\* the windows the reports are requested over
AgreeWindows == {<<31, 31>>, <<31, 32>>, <<32, 32>>}

\* SpecAgree: a ledger of invoices and expenses, and the Financial Summary,
\* Revenue, Expense and Project Finance reports requested over the same
\* ledger; the ledger changes only between reports.
NextAgree ==
  \/ \E d \in AgreeInvoiceRequests :
        AllIdle /\ uuid < MaxBooks /\ create_invoice_query("w1", d)
  \/ create_invoice_flush("w1")
  \/ create_invoice_commit("w1")
  \/ \E i \in 1..MaxBooks : AllIdle /\ mark_invoice_paid(i)
  \/ \E d \in AgreeExpenseRequests : AllIdle /\ uuid < MaxBooks /\ create_expense(d)
  \/ \E i \in 1..MaxBooks : AllIdle /\ approve_expense(i, "u1")
  \/ \E w \in AgreeWindows : generate_financial_summary(w[1], w[2])
  \/ \E w \in AgreeWindows : generate_revenue_report_query("w1", w[1], w[2])
  \/ generate_revenue_report_return("w1")
  \/ \E w \in AgreeWindows : generate_expense_report_query("w1", w[1], w[2])
  \/ generate_expense_report_return("w1")
  \/ \E q \in Projects, w \in AgreeWindows :
        generate_project_finance_report_query("w1", q, w[1], w[2])
  \/ generate_project_finance_report_return("w1")

SpecAgree == Init /\ [][NextAgree]_vars

\* The expense desk: one client after another creates, edits, decides and
\* deletes expenses while the clock runs.  The second request carries the
\* status and approver the seed script passes to ExpenseCreate (seed.py
\* 159-172); the second PUT body carries keys ExpenseUpdate does not declare.
ExpenseRequests ==
  {ExpenseCreate("travel", 2, 1, None),
   [k \in DOMAIN ExpenseCreate("food", 5, 2, None) \cup {"status", "approved_by"} |->
      IF k = "status" THEN "approved"
      ELSE IF k = "approved_by" THEN Some("EMP-001")
      ELSE ExpenseCreate("food", 5, 2, None)[k]]}

ExpensePatches ==
  {[description |-> None, receipt_url |-> None],
   [amount |-> Some(9), status |-> Some("rejected"),
    approved_by |-> Some("u9"), approved_at |-> Some(0)]}

Approvers == {"u1", "u2"}

NextExpense ==
  \/ \E d \in ExpenseRequests : uuid < MaxExpenses /\ create_expense(d)
  \/ \E i \in 1..MaxExpenses, d \in ExpensePatches : update_expense(i, d)
  \/ \E i \in 1..MaxExpenses : approve_expense(i, "u1")
  \/ \E i \in 1..MaxExpenses : reject_expense(i, "u2")
  \/ \E i \in 1..MaxExpenses : delete_expense(i)

SpecExpense == Init /\ [][NextExpense]_vars

\* Requests that name a status: an expense submitted as already reimbursed,
\* and bodies of PUT /expenses/{id} that name the statuses pending and
\* reimbursed next to a field of ExpenseUpdate.
StatusExpenseRequests ==
  {ExpenseCreate("travel", 2, 1, None),
   [k \in DOMAIN ExpenseCreate("food", 5, 2, None) \cup {"status"} |->
      IF k = "status" THEN "reimbursed" ELSE ExpenseCreate("food", 5, 2, None)[k]]}

StatusExpensePatches ==
  {[description |-> Some("x"), status |-> Some("pending")],
   [amount |-> Some(9), status |-> Some("reimbursed")]}

\* SpecExpenseStatus: every expense operation, with callers that try to set a
\* status through the create and update bodies.
NextExpenseStatus ==
  \/ \E d \in StatusExpenseRequests : uuid < MaxExpenses /\ create_expense(d)
  \/ \E i \in 1..MaxExpenses, d \in StatusExpensePatches : update_expense(i, d)
  \/ \E i \in 1..MaxExpenses : approve_expense(i, "u1")
  \/ \E i \in 1..MaxExpenses : reject_expense(i, "u2")
  \/ \E i \in 1..MaxExpenses : delete_expense(i)

SpecExpenseStatus == Init /\ [][NextExpenseStatus]_vars

\* The approval desk: approvers decide and decide again on submitted
\* expenses while the clock runs.
NextApproval ==
  \/ uuid < MaxExpenses /\ create_expense(ExpenseCreate("travel", 2, 1, None))
  \/ \E i \in 1..MaxExpenses, u \in Approvers : approve_expense(i, u)
  \/ \E i \in 1..MaxExpenses, u \in Approvers : reject_expense(i, u)
  \/ now < MaxClock /\ time_passes

SpecApproval == Init /\ [][NextApproval]_vars

\* The ledger desk: one client after another opens accounts and posts
\* transactions of the three kinds on account 1.
LedgerAccount == AccountCreate("main", 1)

LedgerTransactionRequests ==
  {TransactionCreate("income", "sales", 3, 1, 1),
   TransactionCreate("expense", "rent", 4, 1, 1),
   TransactionCreate("withdrawal", "cash", 2, 1, 1)}

NextLedger ==
  \/ uuid < MaxPostings /\ create_account(LedgerAccount)
  \/ \E d \in LedgerTransactionRequests : uuid < MaxPostings /\ create_transaction(d)

SpecLedger == Init /\ [][NextLedger]_vars

\* The posting desk: one request at a time posts on account 1, and a request
\* may fail at any step.
PostingRequests ==
  {TransactionCreate("income", "sales", 3, 1, 1),
   TransactionCreate("expense", "rent", 4, 1, 1)}

NextPosting ==
  \/ AllIdle /\ uuid < MaxPostings /\ create_account(LedgerAccount)
  \/ \E d \in PostingRequests :
        AllIdle /\ uuid < MaxPostings /\ create_transaction_add("w1", d)
  \/ create_transaction_query("w1")
  \/ create_transaction_commit("w1")
  \/ request_fails("w1")

SpecPosting == Init /\ [][NextPosting]_vars

\* Two workers post on account 1 at the same time.
NextPostingRace ==
  \/ AllIdle /\ uuid = 0 /\ create_account(LedgerAccount)
  \/ \E p \in Procs : \E d \in PostingRequests :
        uuid < MaxPostings /\ create_transaction_add(p, d)
  \/ \E p \in Procs : create_transaction_query(p)
  \/ \E p \in Procs : create_transaction_commit(p)

SpecPostingRace == Init /\ [][NextPostingRace]_vars

\* The invoice desk: invoices are composed and then edited, one request at
\* a time.
NextInvoiceUpdate ==
  \/ \E d \in InvoiceRequests :
        uuid < MaxInvoices /\ create_invoice_query("w1", d)
  \/ create_invoice_flush("w1")
  \/ create_invoice_commit("w1")
  \/ \E i \in 1..MaxInvoices, d \in InvoicePatches : AllIdle /\ update_invoice(i, d)

SpecInvoiceUpdate == Init /\ [][NextInvoiceUpdate]_vars

\* The whole store: one request at a time creates, reads, edits and deletes
\* records of every kind; ids are tried whether or not a record has them.
StoreInvoice == InvoiceCreate(None, Some(1), <<Item(2, 3, None)>>, Some(1))

StoreBudget == BudgetCreate(Some("p1"), 5, 1, 2, <<BudgetItem("travel", 5)>>)

StoreExpense == ExpenseCreate("travel", 2, 1, None)

StoreTransaction == TransactionCreate("income", "sales", 3, 1, 1)

\* PUT bodies: each kind has one that sets a nullable column and one that
\* sends null for it
StoreInvoicePatches ==
  {[notes |-> Some("n"), tax_amount |-> Some(2)],
   [notes |-> None]}

StoreBudgetPatches ==
  {[description |-> Some("x"), amount |-> Some(7)],
   [description |-> None]}

StoreExpensePatches ==
  {[description |-> Some("x")],
   [description |-> None, amount |-> Some(9)]}

StoreAccountPatches ==
  {[account_number |-> Some("A1"), is_active |-> Some(FALSE)],
   [account_number |-> None, balance |-> Some(8)]}

Ids == 1..MaxRecords

StoreIds == 1..(MaxStore + 1)

NextStore ==
  \/ uuid < MaxStore /\ create_invoice_query("w1", StoreInvoice)
  \/ create_invoice_flush("w1")
  \/ create_invoice_commit("w1")
  \/ uuid < MaxStore /\ create_budget_flush("w1", StoreBudget)
  \/ create_budget_commit("w1")
  \/ AllIdle /\ uuid < MaxStore /\ create_expense(StoreExpense)
  \/ AllIdle /\ uuid < MaxStore /\ create_account(LedgerAccount)
  \/ AllIdle /\ uuid < MaxStore /\ create_transaction(StoreTransaction)
  \/ \E i \in StoreIds : AllIdle /\ get_invoice(i)
  \/ \E i \in StoreIds : AllIdle /\ send_invoice_to_client(i)
  \/ \E i \in StoreIds : AllIdle /\ get_budget(i)
  \/ \E i \in StoreIds : AllIdle /\ get_expense(i)
  \/ \E i \in StoreIds : AllIdle /\ get_account(i)
  \/ \E i \in StoreIds : AllIdle /\ get_transaction(i)
  \/ \E i \in StoreIds : AllIdle /\ update_invoice(i, [notes |-> Some("n")])
  \/ \E i \in StoreIds : AllIdle /\ update_budget(i, [description |-> Some("x")])
  \/ \E i \in StoreIds : AllIdle /\ update_expense(i, [description |-> Some("x")])
  \/ \E i \in StoreIds : AllIdle /\ update_account(i, [is_active |-> Some(FALSE)])
  \/ \E i \in StoreIds : AllIdle /\ delete_invoice(i)
  \/ \E i \in StoreIds : AllIdle /\ delete_budget(i)
  \/ \E i \in StoreIds : AllIdle /\ delete_expense(i)
  \/ \E i \in StoreIds : AllIdle /\ delete_account(i)
  \/ \E i \in StoreIds : AllIdle /\ mark_invoice_paid(i)
  \/ \E i \in StoreIds : AllIdle /\ approve_expense(i, "u1")
  \/ \E i \in StoreIds : AllIdle /\ reject_expense(i, "u2")

SpecStore == Init /\ [][NextStore]_vars

\* The editing desk: records of the four kinds that have a generic update
\* are created and edited, one request at a time.
NextUpdates ==
  \/ uuid < MaxRecords /\ create_invoice_query("w1", StoreInvoice)
  \/ create_invoice_flush("w1")
  \/ create_invoice_commit("w1")
  \/ uuid < MaxRecords /\ create_budget_flush("w1", StoreBudget)
  \/ create_budget_commit("w1")
  \/ AllIdle /\ uuid < MaxRecords /\ create_expense(StoreExpense)
  \/ AllIdle /\ uuid < MaxRecords /\ create_account(LedgerAccount)
  \/ \E i \in Ids, d \in StoreInvoicePatches : AllIdle /\ update_invoice(i, d)
  \/ \E i \in Ids, d \in StoreBudgetPatches : AllIdle /\ update_budget(i, d)
  \/ \E i \in Ids, d \in StoreExpensePatches : AllIdle /\ update_expense(i, d)
  \/ \E i \in Ids, d \in StoreAccountPatches : AllIdle /\ update_account(i, d)

SpecUpdates == Init /\ [][NextUpdates]_vars

\* ------------------------------------------------------------------ claims

Suffix(row) == Val(NumberSuffix(row.invoice_number))

UniqueNumbers ==
  \A a \in invoices, b \in invoices : a.invoice_number = b.invoice_number => a = b

\* the greatest numeric suffix among a set of invoice numbers, 0 for none
MaxSuffixOf(numbers) ==
  IF numbers = {} THEN 0
  ELSE LET n == CHOOSE x \in numbers :
                  \A y \in numbers : Val(NumberSuffix(y)) <= Val(NumberSuffix(x))
       IN Val(NumberSuffix(n))

\* C3 (as claimed): in a history of non-concurrent operations every newly
\* created invoice gets a number whose suffix is strictly greater than the
\* suffix of every invoice created earlier (deleted ones included), and no two
\* invoices in the store share a number.
C3_NumbersStrictlyIncreasing ==
  /\ []UniqueNumbers
  /\ [][\A p \in Procs :
          create_invoice_commit(p) => Suffix(local[p].db_invoice) > issued]_vars

\* C4 (as claimed): a created invoice has status pending and the number
\* INV-<k+1>, k the greatest suffix among the invoices present in the store
\* when the call started (INV-0001 for an empty store).
C4_NumberIsMaxPlusOne ==
  [][\A p \in Procs :
       create_invoice_commit(p) =>
         /\ local[p].db_invoice.status = "pending"
         /\ local[p].db_invoice.invoice_number =
              FormatInvoiceNumber(MaxSuffixOf(local[p].present) + 1)]_vars

ItemsOf(invoice_id) == {it \in invoice_items : it.invoice_id = invoice_id}

BudgetItemsOf(budget_id) == {it \in budget_items : it.budget_id = budget_id}

\* C1: every persisted invoice has total_amount = amount + tax_amount, after
\* create_invoice and after any update_invoice and mark_invoice_paid.
C1_TotalIsAmountPlusTax ==
  \A r \in invoices : r.total_amount = r.amount + r.tax_amount

\* an invoice with a positive subtotal whose tax was replaced by update_invoice,
\* that was also patched without tax_amount, and marked paid
C1_Witness ==
  \E r \in invoices :
     /\ r.amount > 0 /\ r.tax_amount = 2 /\ r.total_amount = r.amount + 2
     /\ r.notes = Some("n") /\ r.status = "paid"

RECURSIVE LineTotal(_, _)
\* sum of quantity * unit_price over the first n supplied items
LineTotal(items, n) ==
  IF n = 0 THEN 0
  ELSE items[n].quantity * items[n].unit_price + LineTotal(items, n - 1)

\* C2: the amount of a created invoice is the sum of quantity * unit_price over
\* the supplied items and equals the sum of its persisted line amounts, each
\* line amount being quantity * unit_price whatever amount the caller supplied.
C2_AmountIsSumOfLines ==
  /\ [](/\ \A r \in invoices : r.amount = SumOver(ItemsOf(r.id), "amount")
        /\ \A it \in invoice_items : it.amount = it.quantity * it.unit_price)
  /\ [][\A p \in Procs :
          create_invoice_commit(p) =>
            \E r \in invoices' :
               /\ r.id = local[p].db_invoice.id
               /\ r.amount = LineTotal(local[p].invoice_data.items,
                                       Len(local[p].invoice_data.items))
               /\ Cardinality({it \in invoice_items' : it.invoice_id = r.id})
                    = Len(local[p].invoice_data.items)]_vars

\* a persisted invoice made of two lines (1 x 2 with a caller-supplied amount
\* of 7, and 2 x 1): amount 4
C2_Witness ==
  \E r \in invoices :
     /\ r.amount = 4
     /\ Cardinality(ItemsOf(r.id)) = 2
     /\ \E it \in ItemsOf(r.id) : it.quantity = 1 /\ it.unit_price = 2 /\ it.amount = 2

\* C5: under any interleaving of concurrent creations no two invoices in the
\* store share a number and no existing invoice is overwritten; an INSERT of a
\* number a stored invoice holds fails, the caller gets an error and nothing of
\* that request is persisted.
C5_CollisionRefused ==
  /\ []UniqueNumbers
  /\ [][\A p \in Procs :
          /\ (create_invoice_flush(p) \/ create_invoice_commit(p))
               => invoices \subseteq invoices' /\ invoice_items \subseteq invoice_items'
          /\ (create_invoice_flush(p)
                /\ \E r \in invoices :
                      r.invoice_number = local[p].db_invoice.invoice_number)
               => /\ response' = [op |-> "create_invoice", code |-> 500]
                  /\ pc'[p] = "idle"
                  /\ local'[p] = Idle
                  /\ invoices' = invoices
                  /\ invoice_items' = invoice_items]_vars

\* a creation has just been refused with an error while the store holds the
\* invoice whose number it had computed
C5_Witness ==
  /\ response = [op |-> "create_invoice", code |-> 500]
  /\ invoices # {}
  /\ UniqueNumbers

InFlight(p) == pc[p] \in {"inv_built", "inv_flushed"}

\* C6: the read of the latest invoice takes no lock: a creation can start
\* (read the latest invoice) whatever the other worker is doing, and two
\* creations in flight that read the same latest invoice hold the same number.
C6_NumberingNotSerialized ==
  /\ \A p \in Procs, d \in RaceInvoiceRequests :
        pc[p] = "idle" => ENABLED create_invoice_query(p, d)
  /\ \A p \in Procs, q \in Procs :
        (InFlight(p) /\ InFlight(q)
           /\ local[p].latest_invoice = local[q].latest_invoice)
        => local[p].db_invoice.invoice_number = local[q].db_invoice.invoice_number

\* both workers have read the same stored invoice as the latest one and hold
\* the same next number, neither has committed
C6_Witness ==
  /\ pc["w1"] = "inv_built" /\ pc["w2"] = "inv_built"
  /\ ~IsNone(local["w1"].latest_invoice)
  /\ local["w1"].latest_invoice = local["w2"].latest_invoice
  /\ local["w1"].db_invoice.invoice_number = local["w2"].db_invoice.invoice_number
  /\ local["w1"].db_invoice.invoice_number = FormatInvoiceNumber(2)

\* C7: in every state of the store (what another request can observe, and
\* what a failed request leaves behind) a header row comes with all of its
\* item rows and an item row with its header, for invoices and for budgets.
C7_CompositionAtomic ==
  /\ \A r \in invoices : Cardinality(ItemsOf(r.id)) = composed[r.id]
  /\ \A r \in budgets : Cardinality(BudgetItemsOf(r.id)) = composed[r.id]
  /\ \A it \in invoice_items : \E r \in invoices : r.id = it.invoice_id
  /\ \A it \in budget_items : \E r \in budgets : r.id = it.budget_id

\* a request has just failed after its header was flushed, beside a committed
\* invoice and a committed budget
C7_Witness ==
  /\ response.op = "error"
  /\ response.at \in {"inv_flushed", "bud_flushed"}
  /\ invoices # {} /\ invoice_items # {}
  /\ budgets # {} /\ budget_items # {}

\* C8: every item row references a header that exists; a step that removes a
\* header removes all of its items, and the items of the headers that remain
\* are untouched.
C8_NoOrphanItems ==
  /\ [](/\ \A it \in invoice_items : \E r \in invoices : r.id = it.invoice_id
        /\ \A it \in budget_items : \E r \in budgets : r.id = it.budget_id)
  /\ [][/\ \A it \in invoice_items :
             (it \in invoice_items') <=> (\E r \in invoices' : r.id = it.invoice_id)
        /\ \A it \in budget_items :
             (it \in budget_items') <=> (\E r \in budgets' : r.id = it.budget_id)]_vars

\* an invoice has just been deleted with its items while the items of another
\* invoice and of a budget are still there
C8_Witness ==
  /\ response = [op |-> "delete_invoice", code |-> 204]
  /\ invoices # {} /\ invoice_items # {}
  /\ budget_items # {}
  /\ \A it \in invoice_items : \E r \in invoices : r.id = it.invoice_id

RECURSIVE SumById(_, _, _)
\* sum of column col over the rows with ids 1..n
SumById(rows, col, n) ==
  IF n = 0 THEN 0
  ELSE (IF \E r \in rows : r.id = n THEN (CHOOSE r \in rows : r.id = n)[col] ELSE 0)
       + SumById(rows, col, n - 1)

InWindow(date, from_date, to_date) == from_date <= date /\ date <= to_date

IsSummary == response.op = "financial_summary"

\* C9: the Financial Summary returns total_income = sum of total_amount over
\* paid invoices issued inside the inclusive window, total_expenses = sum of
\* amount over approved expenses dated inside it, and net_profit = their
\* difference.
C9_SummaryIncomeExpenses ==
  IsSummary =>
    LET b == response.body
        income == SumById({r \in invoices : r.status = "paid"
                             /\ InWindow(r.issue_date, b.period_start, b.period_end)},
                          "total_amount", uuid)
        spent == SumById({r \in expenses : r.status = "approved"
                            /\ InWindow(r.expense_date, b.period_start, b.period_end)},
                         "amount", uuid)
    IN /\ b.total_income = income
       /\ b.total_expenses = spent
       /\ b.net_profit = income - spent

\* the summary of the one-day window [2, 2]: a paid invoice issued that day
\* (total 4) and an approved expense of that day (2) are counted, a paid
\* invoice issued the day before is not
C9_Witness ==
  /\ IsSummary
  /\ response.body.period_start = 2 /\ response.body.period_end = 2
  /\ response.body.total_income = 4
  /\ response.body.total_expenses = 2
  /\ response.body.net_profit = 2
  /\ \E r \in invoices : r.status = "paid" /\ r.issue_date = 1

\* C10 (as claimed): pending_invoices and overdue_invoices sum the pending and
\* overdue invoices issued inside the inclusive window [from_date, to_date].
C10_PendingOverdueInsideWindow ==
  IsSummary =>
    LET b == response.body
    IN /\ b.pending_invoices =
            SumById({r \in invoices : r.status = "pending"
                       /\ InWindow(r.issue_date, b.period_start, b.period_end)},
                    "total_amount", uuid)
       /\ b.overdue_invoices =
            SumById({r \in invoices : r.status = "overdue"
                       /\ InWindow(r.issue_date, b.period_start, b.period_end)},
                    "total_amount", uuid)

\* C10 (amended): pending_invoices and overdue_invoices sum the pending and
\* overdue invoices issued on or before to_date; from_date is not applied.
C10_PendingOverdueUpToEnd ==
  IsSummary =>
    LET b == response.body
    IN /\ b.pending_invoices =
            SumById({r \in invoices : r.status = "pending"
                       /\ r.issue_date <= b.period_end},
                    "total_amount", uuid)
       /\ b.overdue_invoices =
            SumById({r \in invoices : r.status = "overdue"
                       /\ r.issue_date <= b.period_end},
                    "total_amount", uuid)

\* the summary of the window [2, 3] counts a pending invoice issued on day 1
\* (total 7) and an overdue invoice issued on day 2 (total 4)
C10_Witness ==
  /\ IsSummary
  /\ response.body.period_start = 2 /\ response.body.period_end = 3
  /\ response.body.pending_invoices = 7
  /\ response.body.overdue_invoices = 4
  /\ \E r \in invoices : r.status = "pending" /\ r.issue_date = 1

\* C11 (as claimed): when no paid invoice is issued inside the window and no
\* approved expense is dated inside it, the five scalars of the Financial
\* Summary are all 0.
C11_AllScalarsZero ==
  (IsSummary /\ response.code = 200) =>
    LET b == response.body
    IN ((\A r \in invoices : ~Paid(r, b.period_start, b.period_end))
         /\ (\A r \in expenses : ~Approved(r, b.period_start, b.period_end)))
       => /\ b.total_income = 0 /\ b.total_expenses = 0 /\ b.net_profit = 0
          /\ b.pending_invoices = 0 /\ b.overdue_invoices = 0

\* C11 (amended): the Financial Summary never fails; total_income is 0 when no
\* paid invoice is issued inside the window, total_expenses is 0 when no
\* approved expense is dated inside it, net_profit is 0 when both hold, and
\* pending_invoices (overdue_invoices) is 0 when no pending (overdue) invoice
\* is issued on or before to_date.
C11_ZeroOverNoRows ==
  IsSummary =>
    /\ response.code = 200
    /\ LET b == response.body
           no_income == \A r \in invoices : ~Paid(r, b.period_start, b.period_end)
           no_expense == \A r \in expenses : ~Approved(r, b.period_start, b.period_end)
       IN /\ no_income => b.total_income = 0
          /\ no_expense => b.total_expenses = 0
          /\ (no_income /\ no_expense) => b.net_profit = 0
          /\ (\A r \in invoices : ~(r.status = "pending" /\ r.issue_date <= b.period_end))
               => b.pending_invoices = 0
          /\ (\A r \in invoices : ~(r.status = "overdue" /\ r.issue_date <= b.period_end))
               => b.overdue_invoices = 0

\* the summary of the window [1, 1] over a ledger whose paid invoice and
\* approved expense are dated 2: income, expenses, profit and overdue are 0,
\* the pending invoice issued on day 1 is counted
C11_Witness ==
  /\ IsSummary /\ response.code = 200
  /\ response.body.period_start = 1 /\ response.body.period_end = 1
  /\ response.body.total_income = 0 /\ response.body.total_expenses = 0
  /\ response.body.net_profit = 0 /\ response.body.overdue_invoices = 0
  /\ response.body.pending_invoices = 7
  /\ \E r \in invoices : r.status = "paid"
  /\ \E r \in expenses : r.status = "approved"

PaidIn(from_date, to_date) ==
  {r \in invoices : r.status = "paid" /\ InWindow(r.issue_date, from_date, to_date)}

ApprovedIn(from_date, to_date) ==
  {r \in expenses : r.status = "approved" /\ InWindow(r.expense_date, from_date, to_date)}

IncomeIn(from_date, to_date) ==
  {r \in transactions : r.transaction_type = "income"
                        /\ InWindow(r.transaction_date, from_date, to_date)}

\* "YYYY-MM" of a day of January or February 2024
JanFeb(date) ==
  IF date <= 31 THEN <<"2", "0", "2", "4", "-", "0", "1">>
  ELSE <<"2", "0", "2", "4", "-", "0", "2">>

\* C12: in the raw data of the Revenue, Expense and Profit/Loss reports the
\* keys of every grouped map are exactly the groups of the rows that pass the
\* report's status and window filters; a group without such a row has no key.
C12_KeysOnlyForMatchingRows ==
  \A p \in Procs :
    /\ pc[p] = "revenue_data" =>
         LET d == local[p].revenue_data
             rows == PaidIn(local[p].from_date, local[p].to_date)
         IN /\ DOMAIN d.by_client = {r.client_id : r \in rows}
            /\ DOMAIN d.by_project = {Val(r.project_id) : r \in {x \in rows : x.project_id # None}}
            /\ DOMAIN d.by_month = {JanFeb(r.issue_date) : r \in rows}
    /\ pc[p] = "expense_data" =>
         LET d == local[p].expense_data
             rows == ApprovedIn(local[p].from_date, local[p].to_date)
         IN /\ DOMAIN d.by_category = {r.category : r \in rows}
            /\ DOMAIN d.by_employee = {r.employee_id : r \in rows}
            /\ DOMAIN d.by_project = {Val(r.project_id) : r \in {x \in rows : x.project_id # None}}
            /\ DOMAIN d.by_month = {JanFeb(r.expense_date) : r \in rows}
    /\ pc[p] = "profit_loss_data" =>
         LET d == local[p].profit_loss_data
         IN /\ DOMAIN d.income =
                 {r.category : r \in IncomeIn(local[p].from_date, local[p].to_date)}
            /\ DOMAIN d.expenses =
                 {r.category : r \in ApprovedIn(local[p].from_date, local[p].to_date)}

\* the revenue data of a window holding a paid invoice of client c1 and a
\* pending invoice of client c2 with a project: by_client has the key c1
\* only, by_project has no key
C12_Witness ==
  /\ pc["w1"] = "revenue_data"
  /\ local["w1"].revenue_data.by_client = [k \in {"c1"} |-> 7]
  /\ DOMAIN local["w1"].revenue_data.by_project = {}
  /\ \E r \in invoices :
        /\ r.client_id = "c2" /\ r.status = "pending" /\ r.project_id = Some("p1")
        /\ InWindow(r.issue_date, local["w1"].from_date, local["w1"].to_date)

\* C13: the raw data of the Revenue report counts only paid invoices issued
\* inside the inclusive window: total_revenue is their summed total_amount,
\* by_client sums them per client_id, by_project per project_id over those
\* that have one, by_month per calendar month of issue_date, keyed "YYYY-MM".
C13_RevenueGroups ==
  \A p \in Procs :
    pc[p] = "revenue_data" =>
      LET d == local[p].revenue_data
          rows == PaidIn(local[p].from_date, local[p].to_date)
      IN /\ d.total_revenue = SumById(rows, "total_amount", uuid)
         /\ DOMAIN d.by_client = {r.client_id : r \in rows}
         /\ \A k \in DOMAIN d.by_client :
               d.by_client[k] = SumById({r \in rows : r.client_id = k}, "total_amount", uuid)
         /\ DOMAIN d.by_project = {Val(r.project_id) : r \in {x \in rows : x.project_id # None}}
         /\ \A k \in DOMAIN d.by_project :
               d.by_project[k] =
                 SumById({r \in rows : r.project_id = Some(k)}, "total_amount", uuid)
         /\ DOMAIN d.by_month = {JanFeb(r.issue_date) : r \in rows}
         /\ \A k \in DOMAIN d.by_month :
               d.by_month[k] =
                 SumById({r \in rows : JanFeb(r.issue_date) = k}, "total_amount", uuid)

\* the revenue data of the window [31, 32] over two paid invoices: client c1
\* issued on 2024-01-31 without project (total 7), client c2 issued on
\* 2024-02-01 for project p1 (total 4)
C13_Witness ==
  /\ pc["w1"] = "revenue_data"
  /\ local["w1"].from_date = 31 /\ local["w1"].to_date = 32
  /\ local["w1"].revenue_data.total_revenue = 11
  /\ local["w1"].revenue_data.by_client = [k \in {"c1", "c2"} |-> IF k = "c1" THEN 7 ELSE 4]
  /\ local["w1"].revenue_data.by_project = [k \in {"p1"} |-> 4]
  /\ local["w1"].revenue_data.by_month =
       [k \in {JanFeb(31), JanFeb(32)} |-> IF k = JanFeb(31) THEN 7 ELSE 4]

\* C14: in the raw data of the Profit/Loss report, income is the per-category
\* sum of the amounts of income transactions dated inside the window, expenses
\* the per-category sum of approved expenses dated inside it, and net_profit
\* the sum of the income values minus the sum of the expenses values.
C14_ProfitLossMaps ==
  \A p \in Procs :
    pc[p] = "profit_loss_data" =>
      LET d == local[p].profit_loss_data
          earned == IncomeIn(local[p].from_date, local[p].to_date)
          spent == ApprovedIn(local[p].from_date, local[p].to_date)
      IN /\ DOMAIN d.income = {r.category : r \in earned}
         /\ \A k \in DOMAIN d.income :
               d.income[k] = SumById({r \in earned : r.category = k}, "amount", uuid)
         /\ DOMAIN d.expenses = {r.category : r \in spent}
         /\ \A k \in DOMAIN d.expenses :
               d.expenses[k] = SumById({r \in spent : r.category = k}, "amount", uuid)
         /\ d.net_profit = SumById(earned, "amount", uuid) - SumById(spent, "amount", uuid)

\* the profit/loss data of the window [31, 31] over an income transaction
\* (sales, 3) and an approved expense (travel, 2) of that day
C14_Witness ==
  /\ pc["w1"] = "profit_loss_data"
  /\ local["w1"].from_date = 31 /\ local["w1"].to_date = 31
  /\ local["w1"].profit_loss_data.income = [k \in {"sales"} |-> 3]
  /\ local["w1"].profit_loss_data.expenses = [k \in {"travel"} |-> 2]
  /\ local["w1"].profit_loss_data.net_profit = 1

\* C17 (as claimed): each report generator returns a report (it does not
\* fail) that carries exactly the fields of its published shape, the grouped
\* maps and the scalars being those of the aggregator's raw data.
C17_GeneratorsReturnReports ==
  [][\A p \in Procs :
       /\ generate_profit_loss_report_return(p) =>
            /\ response'.code = 200
            /\ DOMAIN response'.body = ProfitLossReport
            /\ response'.body.income = local[p].profit_loss_data.income
            /\ response'.body.expenses = local[p].profit_loss_data.expenses
            /\ response'.body.net_profit = local[p].profit_loss_data.net_profit
       /\ generate_revenue_report_return(p) =>
            /\ response'.code = 200
            /\ DOMAIN response'.body = RevenueReport
            /\ response'.body.total_revenue = local[p].revenue_data.total_revenue
            /\ response'.body.by_client = local[p].revenue_data.by_client
            /\ response'.body.by_project = local[p].revenue_data.by_project
            /\ response'.body.by_month = local[p].revenue_data.by_month
       /\ generate_expense_report_return(p) =>
            /\ response'.code = 200
            /\ DOMAIN response'.body = ExpenseReport
            /\ response'.body.total_expenses = local[p].expense_data.total_expenses
            /\ response'.body.by_category = local[p].expense_data.by_category
            /\ response'.body.by_employee = local[p].expense_data.by_employee
            /\ response'.body.by_project = local[p].expense_data.by_project
            /\ response'.body.by_month = local[p].expense_data.by_month
       /\ generate_project_finance_report_return(p) =>
            /\ response'.code = 200
            /\ DOMAIN response'.body = ProjectFinanceReport
            /\ response'.body.total_revenue = local[p].project_data.total_revenue
            /\ response'.body.total_expenses = local[p].project_data.total_expenses
            /\ {x.id : x \in response'.body.invoices}
                 = {r.id : r \in local[p].project_data.invoices}
            /\ {x.id : x \in response'.body.expenses}
                 = {r.id : r \in local[p].project_data.expenses}]_vars

OfProject(rows, project_id) == {r \in rows : r.project_id = Some(project_id)}

Overlapping(project_id, from_date, to_date) ==
  {b \in OfProject(budgets, project_id) : b.start_date <= to_date /\ b.end_date >= from_date}

\* C15: the raw data of the Project Finance report has total_revenue = sum of
\* the paid invoices of the project issued inside the window, total_expenses =
\* sum of its approved expenses dated inside the window, profit = their
\* difference and, when a budget of the project overlaps the window,
\* budget_remaining = budget_amount - total_expenses, which may be negative.
C15_ProjectTotals ==
  \A p \in Procs :
    pc[p] = "project_data" =>
      LET d == local[p].project_data
          earned == SumById(OfProject(PaidIn(local[p].from_date, local[p].to_date),
                                      local[p].project_id), "total_amount", uuid)
          spent == SumById(OfProject(ApprovedIn(local[p].from_date, local[p].to_date),
                                     local[p].project_id), "amount", uuid)
      IN /\ d.total_revenue = earned
         /\ d.total_expenses = spent
         /\ d.profit = earned - spent
         /\ Overlapping(local[p].project_id, local[p].from_date, local[p].to_date) # {}
              => /\ d.budget_remaining = d.budget_amount - spent
                 /\ \E b \in budgets : b.amount = d.budget_amount

\* the data of project p1 over [32, 32]: revenue 4, expenses 5, profit -1,
\* budget 3 (its window [31, 32] touches the report window), remaining -2
C15_Witness ==
  /\ pc["w1"] = "project_data"
  /\ local["w1"].project_id = "p1"
  /\ local["w1"].project_data.total_revenue = 4
  /\ local["w1"].project_data.total_expenses = 5
  /\ local["w1"].project_data.profit = 0 - 1
  /\ local["w1"].project_data.budget_amount = 3
  /\ local["w1"].project_data.budget_remaining = 0 - 2

\* C16: the budget of the Project Finance data is the most recently created
\* budget of that project whose [start_date, end_date] overlaps the window,
\* touching endpoints included; when none overlaps, budget_amount and
\* budget_remaining are 0.
C16_LatestOverlappingBudget ==
  \A p \in Procs :
    pc[p] = "project_data" =>
      LET d == local[p].project_data
          candidates == Overlapping(local[p].project_id, local[p].from_date, local[p].to_date)
      IN IF candidates = {}
         THEN d.budget_amount = 0 /\ d.budget_remaining = 0
         ELSE \E b \in candidates :
                 /\ \A o \in candidates : o.id <= b.id
                 /\ d.budget_amount = b.amount
                 /\ d.budget_remaining = b.amount - d.total_expenses

\* the data of project p1 over [32, 33]: both budgets of p1 overlap, the one
\* created later (amount 9) is used although the budget of p2 is the latest
C16_Witness ==
  /\ pc["w1"] = "project_data"
  /\ local["w1"].project_id = "p1"
  /\ local["w1"].from_date = 32 /\ local["w1"].to_date = 33
  /\ local["w1"].project_data.budget_amount = 9
  /\ \E b \in budgets : b.project_id = Some("p1") /\ b.amount = 3
  /\ \E b \in budgets : b.project_id = Some("p2")
                        /\ \A o \in budgets : o.created_at <= b.created_at

\* The three columns a decision writes.
Decision(e) == <<e.status, e.approved_by, e.approved_at>>

\* C18: an expense is created pending and undecided whatever status or
\* approver the caller supplies; afterwards its status, approved_by and
\* approved_at differ between two consecutive states only when the step is
\* approve_expense or reject_expense of that expense; update_expense, with
\* any body, leaves the three columns of every expense as they were.
C18_DecisionOnlyByApproveOrReject ==
  [][/\ \A e \in expenses' :
           (\A o \in expenses : o.id # e.id) => Decision(e) = <<"pending", None, None>>
     /\ \A o \in expenses : \A e \in expenses' :
           (o.id = e.id /\ Decision(e) # Decision(o)) =>
              \E u \in Approvers : \/ approve_expense(o.id, u)
                                   \/ reject_expense(o.id, u)
     /\ \A i \in 1..MaxExpenses : \A d \in ExpensePatches :
           (response'.op = "update_expense" /\ update_expense(i, d)) =>
              \A o \in expenses : \A e \in expenses' :
                 o.id = e.id => Decision(e) = Decision(o)
    ]_vars

\* An approved expense has just been edited with the body that names another
\* status and approver, and it is still approved by "u1"; the expense that was
\* submitted as already approved is pending.
C18_Witness ==
  /\ response = [op |-> "update_expense", code |-> 200]
  /\ \E e \in expenses : /\ e.amount = 9
                         /\ Decision(e) = <<"approved", Some("u1"), Some(0)>>
  /\ \E e \in expenses : e.category = "food" /\ Decision(e) = <<"pending", None, None>>

\* C19: approve_expense and reject_expense of an existing expense succeed
\* whatever its status is (pending, approved or rejected): the call answers
\* 200 and leaves the expense with status approved (rejected), approved_by
\* the caller's approver and approved_at the time of the call, replacing an
\* earlier decision; nothing else of the expense changes.
C19_DecideFromAnyStatus ==
  [][\A o \in expenses : \A u \in Approvers :
        /\ (response'.op = "approve_expense" /\ approve_expense(o.id, u)) =>
              /\ response'.code = 200
              /\ expenses' = (expenses \ {o}) \cup
                   {[o EXCEPT !.status = "approved", !.approved_by = Some(u),
                              !.approved_at = Some(now')]}
        /\ (response'.op = "reject_expense" /\ reject_expense(o.id, u)) =>
              /\ response'.code = 200
              /\ expenses' = (expenses \ {o}) \cup
                   {[o EXCEPT !.status = "rejected", !.approved_by = Some(u),
                              !.approved_at = Some(now')]}
    ]_vars

\* One expense was approved and then, later, rejected by "u2"; another was
\* rejected and then approved: each carries its last decision only.
C19_Witness ==
  /\ response = [op |-> "reject_expense", code |-> 200]
  /\ \E e \in expenses : /\ Decision(e) = <<"rejected", Some("u2"), Some(1)>>
                         /\ DecisionsOf(e.id) = {"approved", "rejected"}
  /\ \E e \in expenses : /\ e.status = "approved"
                         /\ DecisionsOf(e.id) = {"approved", "rejected"}

\* C20: the status of an invoice changes between two consecutive states only
\* along the state machine: from pending to paid by mark_invoice_paid, and
\* into overdue, cancelled or refunded by update_invoice; mark_invoice_paid
\* moves no invoice to paid from another status, and no other step changes a
\* status.
C20_InvoiceStatusMachine ==
  [][\A o \in invoices : \A e \in invoices' :
        (o.id = e.id /\ e.status # o.status) =>
           \/ /\ o.status = "pending" /\ e.status = "paid"
              /\ mark_invoice_paid(o.id)
           \/ /\ e.status \in {"overdue", "cancelled", "refunded"}
              /\ \E d \in InvoicePatches : update_invoice(o.id, d)
    ]_vars

\* The transactions of the given types posted on an account.
PostedTo(a, types) ==
  {t \in transactions : t.account_id = a.id /\ t.transaction_type \in types}

\* C21: after any sequence of postings made one at a time, the balance of an
\* account is its opening balance plus the amounts of its income postings
\* minus the amounts of its expense and withdrawal postings; the balance may
\* be negative.
C21_BalanceIsIncomeMinusOutflow ==
  \A a \in accounts :
     a.balance = LedgerAccount.balance
                 + SumOver(PostedTo(a, {"income"}), "amount")
                 - SumOver(PostedTo(a, {"expense", "withdrawal"}), "amount")

\* The balance an account has when exactly the persisted income and expense
\* postings on it are applied to its opening balance.
BalanceOfPostings(a) ==
  LedgerAccount.balance + SumOver(PostedTo(a, {"income"}), "amount")
                        - SumOver(PostedTo(a, {"expense"}), "amount")

C27_NoLostBalanceUpdate ==
  AllIdle => \A a \in accounts : a.balance = BalanceOfPostings(a)

\* C24: update_invoice of an existing invoice leaves its amount, its
\* invoice_number and the line items of the store as they were; a body that
\* supplies a tax_amount makes tax_amount that value and total_amount the
\* unchanged amount plus it; a body that supplies none leaves tax_amount and
\* total_amount unchanged.
C24_UpdateKeepsSubtotalAndItems ==
  [][\A o \in invoices : \A d \in InvoicePatches :
        (response'.op = "update_invoice" /\ update_invoice(o.id, d)) =>
           /\ invoice_items' = invoice_items
           /\ \E e \in invoices' :
                 /\ e.id = o.id
                 /\ e.amount = o.amount
                 /\ e.invoice_number = o.invoice_number
                 /\ IF "tax_amount" \in DOMAIN d /\ ~IsNone(d.tax_amount)
                    THEN /\ e.tax_amount = Val(d.tax_amount)
                         /\ e.total_amount = o.amount + Val(d.tax_amount)
                    ELSE /\ e.tax_amount = o.tax_amount
                         /\ e.total_amount = o.total_amount
    ]_vars

\* The two-line invoice (subtotal 4, created without tax) after an update that
\* supplied tax_amount 2: total 6, both lines still stored; the other invoice
\* was updated to overdue and keeps its tax of 1.
C24_Witness ==
  /\ response = [op |-> "update_invoice", code |-> 200]
  /\ \E r \in invoices :
        /\ r.project_id = Some("p1") /\ r.amount = 4
        /\ r.tax_amount = 2 /\ r.total_amount = 6
        /\ Cardinality({i \in invoice_items : i.invoice_id = r.id}) = 2
  /\ \E r \in invoices :
        /\ r.status = "overdue" /\ r.amount = 6
        /\ r.tax_amount = 1 /\ r.total_amount = 7

\* A request of each kind made with an id that no record of that kind has.
InvoiceMiss(i) ==
  /\ IsNone(get_invoice_by_id(i))
  /\ \/ get_invoice(i)
     \/ send_invoice_to_client(i)
     \/ update_invoice(i, [notes |-> Some("n")])
     \/ delete_invoice(i)
     \/ mark_invoice_paid(i)

BudgetMiss(i) ==
  /\ IsNone(get_budget_by_id(i))
  /\ \/ get_budget(i)
     \/ update_budget(i, [description |-> Some("x")])
     \/ delete_budget(i)

ExpenseMiss(i) ==
  /\ IsNone(get_expense_by_id(i))
  /\ \/ get_expense(i)
     \/ update_expense(i, [description |-> Some("x")])
     \/ delete_expense(i)
     \/ approve_expense(i, "u1")
     \/ reject_expense(i, "u2")

AccountMiss(i) ==
  /\ IsNone(get_account_by_id(i))
  /\ \/ get_account(i)
     \/ update_account(i, [is_active |-> Some(FALSE)])
     \/ delete_account(i)

TransactionMiss(i) ==
  /\ IsNone(get_transaction_by_id(i))
  /\ get_transaction(i)

\* C23: a get, update, delete, mark-paid, approve or reject request whose id
\* matches no record of its kind is answered 404 and leaves every table of
\* the store as it was.
C23_MissingIdIsNotFound ==
  [][\A i \in StoreIds :
        (\/ InvoiceMiss(i) \/ BudgetMiss(i) \/ ExpenseMiss(i)
         \/ AccountMiss(i) \/ TransactionMiss(i)) =>
           /\ response'.code = 404
           /\ UNCHANGED <<invoices, invoice_items, budgets, budget_items,
                          expenses, transactions, accounts>>
    ]_vars

\* approve_expense was just called with the id of the stored invoice, which
\* is no expense: 404, and the invoice and its line are still there.
C23_Witness ==
  /\ response = [op |-> "approve_expense", code |-> 404]
  /\ \E r \in invoices : r.id = 1 /\ r.status = "pending"
  /\ Cardinality(invoice_items) = 1
  /\ expenses = {}

\* Row e is row o with every key of the body that the schema declares set to
\* the value the body carries, null included, and every other column (the
\* derived ones aside) as it was.
TakesSupplied(o, e, d, fields, derived) ==
  \A k \in (DOMAIN o) \ derived :
     e[k] = IF k \in (DOMAIN d) \cap fields
            THEN IF IsNone(d[k]) THEN None ELSE StoredValue(k, d[k])
            ELSE o[k]

\* Row e is row o with every key of the body that the schema declares and
\* that carries a value set to it, and every other column (the derived ones
\* aside) as it was, those the body sends null for included.
TakesSuppliedValues(o, e, d, fields, derived) ==
  \A k \in (DOMAIN o) \ derived :
     e[k] = IF k \in (DOMAIN d) \cap fields /\ ~IsNone(d[k])
            THEN StoredValue(k, d[k])
            ELSE o[k]

\* C25 as stated: in update_invoice, update_budget, update_expense and
\* update_account of an existing record every supplied field takes the
\* supplied value, every other field keeps its value (total_amount of an
\* invoice aside), and every other record of the store is unchanged.
C25_SuppliedFieldsTakeTheirValue ==
  [][/\ \A o \in invoices : \A d \in StoreInvoicePatches :
           (response'.op = "update_invoice" /\ update_invoice(o.id, d)) =>
              /\ \E e \in invoices' :
                    /\ TakesSupplied(o, e, d, InvoiceUpdate, {"total_amount"})
                    /\ invoices' \ {e} = invoices \ {o}
              /\ UNCHANGED <<invoice_items, budgets, budget_items, expenses, accounts>>
     /\ \A o \in budgets : \A d \in StoreBudgetPatches :
           (response'.op = "update_budget" /\ update_budget(o.id, d)) =>
              /\ \E e \in budgets' :
                    /\ TakesSupplied(o, e, d, BudgetUpdate, {})
                    /\ budgets' \ {e} = budgets \ {o}
              /\ UNCHANGED <<invoices, invoice_items, budget_items, expenses, accounts>>
     /\ \A o \in expenses : \A d \in StoreExpensePatches :
           (response'.op = "update_expense" /\ update_expense(o.id, d)) =>
              /\ \E e \in expenses' :
                    /\ TakesSupplied(o, e, d, ExpenseUpdate, {})
                    /\ expenses' \ {e} = expenses \ {o}
              /\ UNCHANGED <<invoices, invoice_items, budgets, budget_items, accounts>>
     /\ \A o \in accounts : \A d \in StoreAccountPatches :
           (response'.op = "update_account" /\ update_account(o.id, d)) =>
              /\ \E e \in accounts' :
                    /\ TakesSupplied(o, e, d, AccountUpdate, {})
                    /\ accounts' \ {e} = accounts \ {o}
              /\ UNCHANGED <<invoices, invoice_items, budgets, budget_items, expenses>>
    ]_vars

\* C25 as the code has it: every field supplied with a value takes it; a
\* field that is not supplied, or is supplied as null, keeps its value
\* (total_amount of an invoice aside); every other record is unchanged.
C25_SuppliedValuesAreTaken ==
  [][/\ \A o \in invoices : \A d \in StoreInvoicePatches :
           (response'.op = "update_invoice" /\ update_invoice(o.id, d)) =>
              /\ \E e \in invoices' :
                    /\ TakesSuppliedValues(o, e, d, InvoiceUpdate, {"total_amount"})
                    /\ invoices' \ {e} = invoices \ {o}
              /\ UNCHANGED <<invoice_items, budgets, budget_items, expenses, accounts>>
     /\ \A o \in budgets : \A d \in StoreBudgetPatches :
           (response'.op = "update_budget" /\ update_budget(o.id, d)) =>
              /\ \E e \in budgets' :
                    /\ TakesSuppliedValues(o, e, d, BudgetUpdate, {})
                    /\ budgets' \ {e} = budgets \ {o}
              /\ UNCHANGED <<invoices, invoice_items, budget_items, expenses, accounts>>
     /\ \A o \in expenses : \A d \in StoreExpensePatches :
           (response'.op = "update_expense" /\ update_expense(o.id, d)) =>
              /\ \E e \in expenses' :
                    /\ TakesSuppliedValues(o, e, d, ExpenseUpdate, {})
                    /\ expenses' \ {e} = expenses \ {o}
              /\ UNCHANGED <<invoices, invoice_items, budgets, budget_items, accounts>>
     /\ \A o \in accounts : \A d \in StoreAccountPatches :
           (response'.op = "update_account" /\ update_account(o.id, d)) =>
              /\ \E e \in accounts' :
                    /\ TakesSuppliedValues(o, e, d, AccountUpdate, {})
                    /\ accounts' \ {e} = accounts \ {o}
              /\ UNCHANGED <<invoices, invoice_items, budgets, budget_items, expenses>>
    ]_vars

\* An expense whose description was set to "x" has just been sent the body
\* {description: null, amount: 9}: the amount is 9 and the description is
\* still "x"; the account edited before it is as that edit left it.
C25_Witness ==
  /\ response = [op |-> "update_expense", code |-> 200]
  /\ \E e \in expenses : e.description = Some("x") /\ e.amount = 9
  /\ \E a \in accounts : /\ a.account_number = Some("A1")
                         /\ a.is_active = FALSE /\ a.balance = 1

\* the month a datetime of the report routes falls in
MonthOfDateTime(t) == MonthOf(DateOf(t), 1)

\* C26: a report requested with neither from_date nor to_date covers the first
\* through the last day of the current month inclusive: every paid invoice
\* issued, and every approved expense dated, at any time of day of a day of
\* that month is counted in it.
C26_DefaultWindowCoversLastDay ==
  IsSummary =>
    LET b == response.body
        income == SumById({r \in invoices : r.status = "paid"
                             /\ MonthOfDateTime(r.issue_date) = MonthOfDateTime(b.period_start)},
                          "total_amount", uuid)
        spent == SumById({r \in expenses : r.status = "approved"
                             /\ MonthOfDateTime(r.expense_date) = MonthOfDateTime(b.period_start)},
                          "amount", uuid)
    IN b.total_income = income /\ b.total_expenses = spent

\* C28: over any sequence of operations the status of every expense is
\* pending, approved or rejected, never reimbursed, and an expense whose
\* status is not pending is not pending after the next step either.
C28_ExpenseStatusNeverBackToPending ==
  [][/\ \A e \in expenses' : e.status \in {"pending", "approved", "rejected"}
     /\ \A o \in expenses : \A e \in expenses' :
           (o.id = e.id /\ o.status # "pending") => e.status # "pending"
    ]_vars

\* A decided expense has been edited with both bodies, the one naming status
\* pending and the one naming status reimbursed, and it kept its decision; the
\* expense submitted as reimbursed is there too.
C28_Witness ==
  /\ response = [op |-> "update_expense", code |-> 200]
  /\ \E e \in expenses : /\ e.category = "travel"
                         /\ e.description = Some("x") /\ e.amount = 9
                         /\ e.status = "rejected"
                         /\ DecisionsOf(e.id) = {"rejected"}
  /\ \E e \in expenses : e.category = "food" /\ e.status \in {"pending", "approved"}

\* C30: in the raw data of one Revenue report the by_client values sum to
\* total_revenue and so do the by_month values, and the by_project values sum
\* to the revenue of the counted invoices that have a project, at most
\* total_revenue as no amount is negative; in the raw data of one Expense
\* report by_category, by_employee and by_month each sum to total_expenses.
C30_GroupsSumToTotals ==
  \A p \in Procs :
    /\ pc[p] = "revenue_data" =>
         LET d == local[p].revenue_data
             rows == PaidIn(local[p].from_date, local[p].to_date)
         IN /\ SumValues(d.by_client) = d.total_revenue
            /\ SumValues(d.by_month) = d.total_revenue
            /\ SumValues(d.by_project) =
                 SumById({r \in rows : r.project_id # None}, "total_amount", uuid)
            /\ SumValues(d.by_project) <= d.total_revenue
    /\ pc[p] = "expense_data" =>
         LET d == local[p].expense_data
         IN /\ SumValues(d.by_category) = d.total_expenses
            /\ SumValues(d.by_employee) = d.total_expenses
            /\ SumValues(d.by_month) = d.total_expenses

\* the revenue data over two paid invoices of two clients and two months, one
\* of them of a project: the client and month groups add up to 11, the project
\* group to 4
C30_Witness ==
  /\ pc["w1"] = "revenue_data"
  /\ local["w1"].revenue_data.total_revenue = 11
  /\ Cardinality(DOMAIN local["w1"].revenue_data.by_client) = 2
  /\ Cardinality(DOMAIN local["w1"].revenue_data.by_month) = 2
  /\ SumValues(local["w1"].revenue_data.by_client) = 11
  /\ SumValues(local["w1"].revenue_data.by_project) = 4

RECURSIVE SumProjectRevenue(_, _, _)
\* the sum over a set of projects of the total_revenue of their Project Finance
\* data
SumProjectRevenue(projects, from_date, to_date) ==
  IF projects = {} THEN 0
  ELSE LET q == CHOOSE x \in projects : TRUE
       IN get_project_finance_data(q, from_date, to_date).total_revenue
            + SumProjectRevenue(projects \ {q}, from_date, to_date)

\* the projects of the ledger
LedgerProjects == Projects \cup {Val(r.project_id) : r \in {x \in invoices : x.project_id # None}}

\* the Financial Summary was answered over the window that p's report data was
\* fetched over, on the same ledger
SummaryOfSameWindow(p) ==
  /\ IsSummary
  /\ response.body.period_start = local[p].from_date
  /\ response.body.period_end = local[p].to_date

\* C29: over one ledger and one window the reports agree: the Financial
\* Summary's total_income is the Revenue data's total_revenue, its
\* total_expenses is the Expense data's total_expenses, the Project Finance
\* total_revenue of a project is that project's by_project value of the
\* Revenue data (0 without one), and summed over all projects it is the sum of
\* the by_project values.
C29_ReportsAgree ==
  \A p \in Procs :
    /\ (pc[p] = "revenue_data" /\ SummaryOfSameWindow(p)) =>
          response.body.total_income = local[p].revenue_data.total_revenue
    /\ (pc[p] = "expense_data" /\ SummaryOfSameWindow(p)) =>
          response.body.total_expenses = local[p].expense_data.total_expenses
    /\ pc[p] = "revenue_data" =>
          SumProjectRevenue(LedgerProjects, local[p].from_date, local[p].to_date)
            = SumValues(local[p].revenue_data.by_project)
    /\ pc[p] = "project_data" =>
          LET by_project == get_revenue_data(local[p].from_date, local[p].to_date).by_project
              q == local[p].project_id
          IN local[p].project_data.total_revenue =
               (IF q \in DOMAIN by_project THEN by_project[q] ELSE 0)

\* the summary of the window [31, 32] reported an income of 2 and the revenue
\* data fetched over that window and ledger has total_revenue 2, all of it
\* from the paid invoice of project p2; the invoice of project p1 is pending
C29_Witness ==
  /\ pc["w1"] = "revenue_data"
  /\ SummaryOfSameWindow("w1")
  /\ response.body.period_start = 31 /\ response.body.period_end = 32
  /\ response.body.total_income = 2
  /\ local["w1"].revenue_data.total_revenue = 2
  /\ local["w1"].revenue_data.by_project = [k \in {"p2"} |-> 2]
  /\ SumProjectRevenue(LedgerProjects, 31, 32) = 2
  /\ \E r \in invoices : r.status = "pending" /\ r.project_id = Some("p1")

====
